---- MODULE Spec2Model ----
(***************************************************************************)
(* A model of CentroidTracker (src/monitor/main.py): the greedy            *)
(* nearest-centroid tracker that gives stable ids to the boxes detected    *)
(* in each frame of a stream.                                              *)
(*                                                                         *)
(* A Python dict is modelled as the sequence of its entries [k, v] in      *)
(* insertion order. Rows and columns are numbered from 1 here and from 0   *)
(* in the source. D holds squared Euclidean distances: math.dist is the    *)
(* square root of these integers, which orders them the same way.          *)
(***************************************************************************)
EXTENDS Integers, Sequences, FiniteSets, TLC

\* Bounds of the model.
MaxDets == 2
MaxObjectID == 3
MaxMaxDisappeared == 2

\* The numbers a coordinate of a box may be. A whole number from -MaxCoord
\* to MaxCoord is itself. The three codes past MaxCoord stand for
\* float('nan'), float('inf') and the int 2**64: numbers that int(), or the
\* int64 row of inputCentroids, refuses. The codes are read in coordinates
\* only: a sum of two coordinates is never compared with them.
MaxCoord == 1000
NaN == MaxCoord + 1
Infinity == MaxCoord + 2
TwoTo64 == MaxCoord + 3

\* The boxes (x1, y1, x2, y2) a frame may hold, with centroids (0,0), (0,0),
\* (-3,0), (-1,0), (2,0) and (0,2): a zero-size box, negative coordinates,
\* odd and negative coordinate sums, a box with x1 > x2 and two different
\* boxes with the same centroid.
DetectionBoxes ==
    {<<0, 0, 0, 0>>, <<-1, 0, 0, 1>>, <<-3, -1, -3, 0>>, <<0, 0, -2, 1>>,
     <<1, 0, 3, 1>>, <<0, 1, 1, 3>>}

\* The detection lists update() is called with.
Frames == UNION {[1..n -> DetectionBoxes] : n \in 0..MaxDets}

\* Boxes of any four numbers: a zero-size box, a box with x1 > x2, a
\* negative coordinate and the largest whole coordinates (y1 + y2 is
\* MaxCoord + 1, centroid (499, 500)), and boxes with a coordinate that is
\* not a number, that is infinite, and that is past 64 bits.
NumericBoxes ==
    {<<0, 0, 0, 0>>, <<MaxCoord, 1, -2, MaxCoord>>,
     <<NaN, 0, 1, 1>>, <<0, 0, 1, Infinity>>, <<0, 0, TwoTo64, 0>>, <<TwoTo64, NaN, 0, 0>>}
BoxFrames == UNION {[1..n -> NumericBoxes] : n \in 0..MaxDets}

\* Bounds of the crowded scene: the spots of a queue, the people of a group
\* standing on one spot, and the ids given out.
QueueLen == 9
GroupSize == 17
CrowdMaxObjectID == 18

\* Bound of the stream with failures: the people in one frame.
StreamMaxDets == 1

\* The box of a person on spot k of the queue, with centroid (10 k, 0).
Spot(k) == <<10 * k - 2, -4, 10 * k + 2, 4>>

\* The frames of the crowded scene: the first k spots of the queue taken,
\* and one person on spot 1 with a group of b on spot 2.
Queue(k) == [j \in 1..k |-> Spot(j)]
Group(b) == <<Spot(1)>> \o [j \in 1..b |-> Spot(2)]

VARIABLES
    nextObjectID,   \* self.nextObjectID
    objects,        \* self.objects: dict id -> centroid
    disappeared,    \* self.disappeared: dict id -> frames unmatched
    object_boxes,   \* self.object_boxes: dict id -> box
    maxDisappeared, \* self.maxDisappeared
    raised,         \* the exception that ended the stream loop, or "none"
    detections,     \* the argument of the latest update() call
    events,         \* what the latest update() call did, in order
    registrations,  \* history: number of register() calls so far
    deregistered,   \* history: ids passed to deregister() so far
    seen,           \* history: per id ever registered, the updates missed in a row and the last box
    emptyRun,       \* history: number of update([]) calls in a row, up to now
    emptyRunNext,   \* history: nextObjectID when the latest update with detections returned
    reappeared,     \* history: ids removed by the update before the latest, at whose last
                    \* position the latest update registered a detection
    recovered,      \* history: the latest update matched an object whose count was not 0 before it
    leapt,          \* history: the latest update matched the only tracked object to the only
                    \* detection of the frame, as far away as two boxes of a frame can be
    mailConfigured, \* tickets: Mail_USERNAME and Mail_PASSWORD are both set in app.config
    schema,         \* tickets: the four tables of the shop exist
    users,          \* tickets: the committed rows of table users
    attractions,    \* tickets: the committed rows of table attractions: id and price
    orders,         \* tickets: the committed rows of table orders
    pending,        \* tickets: the purchases that have made up their order and wait to write it
    order_items,    \* tickets: the committed rows of table order_items
    session,        \* tickets: the session of the one client, a dict carried by its cookie
    answer,         \* tickets: the latest answer to a purchase or to a request on the
                    \* session, if there is one since the tables were last dropped
    asked,          \* history: the latest purchase request was in order as to tickets and names
    loggedIn        \* history: a login was answered 200 after the last logout

vars == <<nextObjectID, objects, disappeared, object_boxes, maxDisappeared, raised,
          detections, events, registrations, deregistered, seen, emptyRun,
          emptyRunNext, reappeared, recovered, leapt,
          mailConfigured, schema, users, attractions, orders, order_items,
          pending, session, answer, asked, loggedIn>>

\* The variables of the tracker and those of the ticket shop, two programs
\* that share nothing.
monitor == <<nextObjectID, objects, disappeared, object_boxes, maxDisappeared, raised,
             detections, events, registrations, deregistered, seen, emptyRun,
             emptyRunNext, reappeared, recovered, leapt>>
tickets == <<mailConfigured, schema, users, attractions, orders, order_items,
          pending, session, answer, asked, loggedIn>>

-----------------------------------------------------------------------------
(* Python dict operations on a sequence of entries.                        *)

DictKeys(d) == [i \in 1..Len(d) |-> d[i].k]
DictValues(d) == [i \in 1..Len(d) |-> d[i].v]
DictKeySet(d) == {d[i].k : i \in 1..Len(d)}
DictHas(d, k) == k \in DictKeySet(d)
DictGet(d, k) == d[CHOOSE i \in 1..Len(d) : d[i].k = k].v
\* d[k] = v that moves an existing key to the end, as del d[k] followed by
\* d[k] = v would.
DictSet_MoveToEnd(d, k, v) ==
    Append(SelectSeq(d, LAMBDA e : e.k # k), [k |-> k, v |-> v])

\* d[k] = v: an existing key keeps its place, a new key goes last.
DictSet(d, k, v) ==
    IF DictHas(d, k)
    THEN [i \in 1..Len(d) |-> IF d[i].k = k THEN [k |-> k, v |-> v] ELSE d[i]]
    ELSE Append(d, [k |-> k, v |-> v])
\* del d[k]
DictDel(d, k) == SelectSeq(d, LAMBDA e : e.k # k)

-----------------------------------------------------------------------------
(* Pure helpers of update().                                               *)

\* Halving that rounds toward minus infinity, as n // 2 would.
IntHalf_Floor(n) == n \div 2

\* int(n / 2.0): Python's int() truncates toward zero.
IntHalf(n) == IF n >= 0 THEN n \div 2 ELSE -((-n) \div 2)

\* What a coordinate is to the arithmetic of lines 58-60: float('nan'),
\* float('inf'), the int 2**64, or a whole number.
CoordKind(c) ==
    IF c = NaN THEN "nan"
    ELSE IF c = Infinity THEN "inf"
    ELSE IF c = TwoTo64 THEN "big"
    ELSE "int"

\* startX + endX, as the kind of the sum and, for a sum of two whole
\* numbers, its value n: nan with any number is nan, inf with any other
\* number is inf, and 2**64 with a whole number of the model stays past 64
\* bits. The sum of two whole numbers is a whole number, whatever its value.
Plus(a, b) ==
    LET kinds == {CoordKind(a), CoordKind(b)}
    IN  IF "nan" \in kinds THEN [kind |-> "nan", n |-> 0]
        ELSE IF "inf" \in kinds THEN [kind |-> "inf", n |-> 0]
        ELSE IF "big" \in kinds THEN [kind |-> "big", n |-> 0]
        ELSE [kind |-> "int", n |-> a + b]

\* int(s / 2.0): ValueError for nan, OverflowError for inf.
IntRaises(s) ==
    IF s.kind = "nan" THEN "ValueError"
    ELSE IF s.kind = "inf" THEN "OverflowError"
    ELSE "none"

\* Lines 58-60 for one box: the exception of int() for cX, then of int() for
\* cY, then of the store of (cX, cY) into the int64 row inputCentroids[i],
\* which refuses half of a sum past 64 bits; "none" when the three lines run.
CentroidRaises(box) ==
    LET sumX == Plus(box[1], box[3])
        sumY == Plus(box[2], box[4])
    IN  IF IntRaises(sumX) # "none" THEN IntRaises(sumX)
        ELSE IF IntRaises(sumY) # "none" THEN IntRaises(sumY)
        ELSE IF "big" \in {sumX.kind, sumY.kind} THEN "OverflowError"
        ELSE "none"

\* cX = int((startX + endX) / 2.0), cY = int((startY + endY) / 2.0), for a
\* box on which lines 58-60 raise nothing.
Centroid(box) ==
    <<IntHalf(Plus(box[1], box[3]).n), IntHalf(Plus(box[2], box[4]).n)>>

\* math.dist(p, q), squared.
Dist(p, q) == (p[1] - q[1]) * (p[1] - q[1]) + (p[2] - q[2]) * (p[2] - q[2])

\* D[i, j] for existing object i and input detection j.
DistMatrix(objectCentroids, inputCentroids) ==
    [i \in 1..Len(objectCentroids) |->
        [j \in 1..Len(inputCentroids) |-> Dist(objectCentroids[i], inputCentroids[j])]]

\* The largest value of the row instead of the smallest.
RowMin_Largest(r) == CHOOSE m \in {r[j] : j \in 1..Len(r)} : \A j \in 1..Len(r) : m >= r[j]

\* D.min(axis=1)[i]
RowMin(r) == CHOOSE m \in {r[j] : j \in 1..Len(r)} : \A j \in 1..Len(r) : m <= r[j]

\* The last index of the minimum instead of the first.
ArgMin_Last(r) ==
    CHOOSE j \in 1..Len(r) : r[j] = RowMin(r) /\ \A h \in (j + 1)..Len(r) : r[h] # RowMin(r)

\* D.argmin(axis=1)[i]: the first index of the minimum.
ArgMin(r) == CHOOSE j \in 1..Len(r) : r[j] = RowMin(r) /\ \A h \in 1..(j - 1) : r[h] # RowMin(r)

\* Insert index i into the index list s, sorted by a, after every index
\* whose value is not greater.
RECURSIVE InsertSorted(_, _, _)
InsertSorted(a, s, i) ==
    IF s = <<>> THEN <<i>>
    ELSE IF a[s[Len(s)]] <= a[i] THEN Append(s, i)
    ELSE Append(InsertSorted(a, SubSeq(s, 1, Len(s) - 1), i), s[Len(s)])

\* The insertion sort of the first n indices of a, which leaves equal
\* values in index order.
RECURSIVE ArgSortUpTo(_, _)
ArgSortUpTo(a, n) == IF n = 0 THEN <<>> ELSE InsertSorted(a, ArgSortUpTo(a, n - 1), n)
\* The rows sorted by descending value.
ArgSort_Descending(a) ==
    LET asc == ArgSortUpTo(a, Len(a)) IN [i \in 1..Len(asc) |-> asc[Len(asc) + 1 - i]]

Swap(s, i, j) == [s EXCEPT ![i] = s[j], ![j] = s[i]]

\* The insertion sort of the run s[pl..pr] of an index list.
RECURSIVE SortRun(_, _, _, _)
SortRun(a, s, pl, pr) ==
    IF pr < pl THEN <<>> ELSE InsertSorted(a, SortRun(a, s, pl, pr - 1), s[pr])

\* do ++pi while a[s[pi]] < vp, and do --pj while vp < a[s[pj]].
RECURSIVE ScanUp(_, _, _, _)
ScanUp(a, s, vp, pi) == IF a[s[pi]] < vp THEN ScanUp(a, s, vp, pi + 1) ELSE pi
RECURSIVE ScanDown(_, _, _, _)
ScanDown(a, s, vp, pj) == IF vp < a[s[pj]] THEN ScanDown(a, s, vp, pj - 1) ELSE pj

\* The partition loop around the pivot value vp, from the positions pi and
\* pj: the index list and the position where the scan from the left ended.
RECURSIVE Partition(_, _, _, _, _)
Partition(a, s, vp, pi, pj) ==
    LET ni == ScanUp(a, s, vp, pi + 1)
        nj == ScanDown(a, s, vp, pj - 1)
    IN  IF ni >= nj THEN [s |-> s, pi |-> ni]
        ELSE Partition(a, Swap(s, ni, nj), vp, ni, nj)

\* numpy's quicksort on the run s[pl..pr]: a run of more than 17 indices is
\* split around the median of its first, middle and last value and both
\* parts are sorted; a shorter run is sorted by insertion. (The fallback to
\* heapsort after 2 * floor(log2(n)) nested splits needs more than 25
\* elements.)
RECURSIVE AQuickSort(_, _, _, _)
AQuickSort(a, s, pl, pr) ==
    IF pr - pl > 16
    THEN LET pm == pl + ((pr - pl) \div 2)
             s1 == IF a[s[pm]] < a[s[pl]] THEN Swap(s, pm, pl) ELSE s
             s2 == IF a[s1[pr]] < a[s1[pm]] THEN Swap(s1, pr, pm) ELSE s1
             s3 == IF a[s2[pm]] < a[s2[pl]] THEN Swap(s2, pm, pl) ELSE s2
             vp == a[s3[pm]]
             part == Partition(a, Swap(s3, pm, pr - 1), vp, pl, pr - 1)
             s4 == Swap(part.s, part.pi, pr - 1)
             left == AQuickSort(a, s4, pl, part.pi - 1)
         IN  AQuickSort(a, left, part.pi + 1, pr)
    ELSE LET run == SortRun(a, s, pl, pr)
         IN  [i \in 1..Len(s) |-> IF i >= pl /\ i <= pr THEN run[i - pl + 1] ELSE s[i]]

\* The rows left in the order of the mapping.
ArgSort_Unsorted(a) == [i \in 1..Len(a) |-> i]

\* a.argsort(), with numpy's default kind, quicksort.
ArgSort(a) == AQuickSort(a, [i \in 1..Len(a) |-> i], 1, Len(a))

\* D.argmin(axis=1) without the reordering by rows.
Cols_Unsorted(D, rows) == [i \in 1..Len(rows) |-> ArgMin(D[i])]

\* D.argmin(axis=1)[rows]: the nearest detection of each row, in row order.
Cols(D, rows) == [i \in 1..Len(rows) |-> ArgMin(D[rows[i]])]

\* A Python set of non-negative ints, as CPython lays it out: an open hash
\* table whose size is a power of two and at least 8, an int being its own
\* hash. A free slot holds -1 and the slot of a discarded key -2. A key goes
\* to the first free slot among slot i = key mod size and, when they are
\* inside the table, the 9 slots after it; failing that i becomes
\* 5 i + 1 + perturb (mod size), with perturb the hash shifted 5 bits more
\* each time.
RECURSIVE SetSlot(_, _, _)
SetSlot(table, i, perturb) ==
    LET size == Len(table)
        last == IF i + 9 <= size - 1 THEN i + 9 ELSE i
        free == {h \in i..last : table[h + 1] = -1}
    IN  IF free # {} THEN CHOOSE h \in free : \A g \in free : h <= g
        ELSE SetSlot(table, (5 * i + 1 + (perturb \div 32)) % size, perturb \div 32)

SetInsertClean(table, key) == [table EXCEPT ![SetSlot(table, key % Len(table), key) + 1] = key]

\* The keys of a table in slot order, which is the order of iteration.
SetKeys(table) == SelectSeq(table, LAMBDA k : k >= 0)

\* The smallest table size above minused.
RECURSIVE SetTableSize(_, _)
SetTableSize(size, minused) ==
    IF size <= minused THEN SetTableSize(2 * size, minused) ELSE size

RECURSIVE SetInsertAll(_, _, _)
SetInsertAll(table, keys, i) ==
    IF i > Len(keys) THEN table
    ELSE SetInsertAll(SetInsertClean(table, keys[i]), keys, i + 1)

\* A table of the given size holding the keys, inserted in the given order.
SetTable(size, keys) == SetInsertAll([h \in 1..size |-> -1], keys, 1)

\* set.add(key) of a key that is not in the set, which then holds fill
\* keys: the table is rebuilt at more than four times its number of keys
\* once three fifths of it are in use.
SetAdd(table, key, fill) ==
    LET added == SetInsertClean(table, key)
    IN  IF fill * 5 < (Len(table) - 1) * 3 THEN added
        ELSE SetTable(SetTableSize(8, fill * 4), SetKeys(added))

\* The keys added one by one to a set that is empty at i = 1.
RECURSIVE SetAddAll(_, _, _)
SetAddAll(table, keys, i) ==
    IF i > Len(keys) THEN table ELSE SetAddAll(SetAdd(table, keys[i], i), keys, i + 1)

\* set(range(0, n))
SetOfRange(n) == SetAddAll([h \in 1..8 |-> -1], [i \in 1..n |-> i - 1], 1)

\* list(set(range(0, n)).difference(used)), used a set of ints in 0..n-1:
\* the order in which the for loops over unusedRows and unusedCols run. When
\* len(used) is below a quarter of n, CPython copies the range set and
\* discards the used keys; otherwise it adds the keys that are not used, in
\* the order of the range set, to an empty set.
SetDifference(n, used) ==
    LET so == SetOfRange(n)
    IN  IF (n \div 4) > Cardinality(used)
        THEN LET copy == IF n * 5 >= 7 * 3
                         THEN SetTable(SetTableSize(8, 2 * n), SetKeys(so))
                         ELSE so
             IN  SetKeys([h \in 1..Len(copy) |-> IF copy[h] \in used THEN -2 ELSE copy[h]])
        ELSE SetKeys(SetAddAll([h \in 1..8 |-> -1],
                               SelectSeq(SetKeys(so), LAMBDA k : k \notin used), 1))

-----------------------------------------------------------------------------
(* The tracker. self is the record of the object's fields, with the events *)
(* of the running update() call and the exception it has raised, if any:   *)
(* an exception ends the call, so no statement after it acts.              *)

Running(self) == self.raised = "none"
Raise(self, e) == IF Running(self) THEN [self EXCEPT !.raised = e] ELSE self

Log(self, e) == IF Running(self) THEN [self EXCEPT !.events = Append(@, e)] ELSE self

\* del self.<f>[k]: a KeyError when the key is not there.
DelItem(self, f, k) ==
    IF ~Running(self) THEN self
    ELSE IF DictHas(self[f], k) THEN [self EXCEPT ![f] = DictDel(@, k)]
    ELSE Raise(self, "KeyError")

\* register() that stores no box for the new id.
register_WithoutBox(self, centroid, box) ==
    [self EXCEPT !.objects = DictSet(@, self.nextObjectID, centroid),
                 !.disappeared = DictSet(@, self.nextObjectID, 0),
                 !.nextObjectID = @ + 1]

\* register() without the increment of the counter.
register_NoIncrement(self, centroid, box) ==
    [self EXCEPT !.objects = DictSet(@, self.nextObjectID, centroid),
                 !.disappeared = DictSet(@, self.nextObjectID, 0),
                 !.object_boxes = DictSet(@, self.nextObjectID, box)]

\* register() that refuses a box whose corners are not in order.
register_RejectsMalformed(self, centroid, box) ==
    IF box[1] > box[3] \/ box[2] > box[4] THEN Raise(self, "ValueError")
    ELSE [self EXCEPT !.objects = DictSet(@, self.nextObjectID, centroid),
                      !.disappeared = DictSet(@, self.nextObjectID, 0),
                      !.object_boxes = DictSet(@, self.nextObjectID, box),
                      !.nextObjectID = @ + 1]

register(self, centroid, box) ==
    [self EXCEPT !.objects = DictSet(@, self.nextObjectID, centroid),
                 !.disappeared = DictSet(@, self.nextObjectID, 0),
                 !.object_boxes = DictSet(@, self.nextObjectID, box),
                 !.nextObjectID = @ + 1]

\* deregister() that leaves the box of the object behind.
deregister_KeepsBox(self, objectID) ==
    [self EXCEPT !.objects = DictDel(@, objectID),
                 !.disappeared = DictDel(@, objectID)]

deregister(self, objectID) ==
    DelItem(DelItem(DelItem(self, "objects", objectID), "disappeared", objectID),
            "object_boxes", objectID)

\* The expiry test one frame late, and one frame early.
Expired_Late(self, objectID) == DictGet(self.disappeared, objectID) > self.maxDisappeared + 1
Expired_Early(self, objectID) == DictGet(self.disappeared, objectID) >= self.maxDisappeared

\* The test that ends an object's life.
Expired(self, objectID) == DictGet(self.disappeared, objectID) > self.maxDisappeared

\* The expiry check without the increment before it.
MarkDisappeared_NoBump(self, objectID) ==
    IF Expired(self, objectID)
    THEN Log(deregister(self, objectID), [op |-> "deregister", id |-> objectID, col |-> 0])
    ELSE self

\* self.disappeared[objectID] += 1, then deregister when over the limit.
MarkDisappeared(self, objectID) ==
    IF ~DictHas(self.disappeared, objectID) THEN Raise(self, "KeyError")
    ELSE LET bumped == [self EXCEPT !.disappeared =
                           DictSet(@, objectID, DictGet(self.disappeared, objectID) + 1)]
         IN  IF Expired(bumped, objectID)
             THEN Log(deregister(bumped, objectID),
                      [op |-> "deregister", id |-> objectID, col |-> 0])
             ELSE bumped

\* The loop over the live dict instead of a copy of its keys: the key that
\* follows a deleted one is skipped.
RECURSIVE DisappearAll_SkipAfterDelete(_, _, _)
DisappearAll_SkipAfterDelete(self, keys, i) ==
    IF i > Len(keys) THEN self
    ELSE LET after == MarkDisappeared(self, keys[i])
         IN  DisappearAll_SkipAfterDelete(
                after, keys, IF DictHas(after.disappeared, keys[i]) THEN i + 1 ELSE i + 2)

\* for objectID in list(self.disappeared.keys()): ...
RECURSIVE DisappearAll(_, _, _)
DisappearAll(self, keys, i) ==
    IF i > Len(keys) \/ ~Running(self) THEN self
    ELSE DisappearAll(MarkDisappeared(self, keys[i]), keys, i + 1)

\* The registration loop run from the last detection to the first.
RECURSIVE RegisterAll_Reversed(_, _, _, _)
RegisterAll_Reversed(self, inputCentroids, inputBoxes, i) ==
    IF i > Len(inputCentroids) THEN self
    ELSE LET j == Len(inputCentroids) + 1 - i
         IN  RegisterAll_Reversed(
                Log(register(self, inputCentroids[j], inputBoxes[j]),
                    [op |-> "register", id |-> self.nextObjectID, col |-> j]),
                inputCentroids, inputBoxes, i + 1)

\* for i in range(0, len(inputCentroids)): self.register(...)
RECURSIVE RegisterAll(_, _, _, _)
RegisterAll(self, inputCentroids, inputBoxes, i) ==
    IF i > Len(inputCentroids) \/ ~Running(self) THEN self
    ELSE RegisterAll(
            Log(register(self, inputCentroids[i], inputBoxes[i]),
                [op |-> "register", id |-> self.nextObjectID, col |-> i]),
            inputCentroids, inputBoxes, i + 1)

\* The skip test that forgets the used columns.
Skip_RowsOnly(row, col, usedRows, usedCols) == row \in usedRows

\* A pair (row, col) is skipped when its row or its column is used.
Skip(row, col, usedRows, usedCols) == row \in usedRows \/ col \in usedCols

\* A match that leaves the count of the object as it was.
Assign_NoReset(self, objectID, centroid, box) ==
    [self EXCEPT !.objects = DictSet(@, objectID, centroid),
                 !.object_boxes = DictSet(@, objectID, box)]

\* A match that gives an object coming back from an absence a fresh id.
Assign_FreshIdAfterAbsence(self, objectID, centroid, box) ==
    IF DictGet(self.disappeared, objectID) > 0
    THEN register(deregister(self, objectID), centroid, box)
    ELSE [self EXCEPT !.objects = DictSet(@, objectID, centroid),
                      !.object_boxes = DictSet(@, objectID, box),
                      !.disappeared = DictSet(@, objectID, 0)]

\* The body of the matching loop for a pair that is not skipped.
Assign(self, objectID, centroid, box) ==
    [self EXCEPT !.objects = DictSet(@, objectID, centroid),
                 !.object_boxes = DictSet(@, objectID, box),
                 !.disappeared = DictSet(@, objectID, 0)]

\* The matching loop with a maximum matching distance: a pair farther apart
\* than 4 is skipped.
RECURSIVE MatchLoop_MaxDistance(_, _, _, _, _, _, _)
MatchLoop_MaxDistance(st, rows, cols, objectIDs, inputCentroids, inputBoxes, i) ==
    IF i > Len(rows) \/ ~Running(st.self) THEN st
    ELSE LET row == rows[i]
             col == cols[i]
         IN  IF \/ Skip(row, col, st.usedRows, st.usedCols)
                \/ Dist(DictGet(st.self.objects, objectIDs[row]), inputCentroids[col]) > 16
             THEN MatchLoop_MaxDistance(st, rows, cols, objectIDs, inputCentroids, inputBoxes, i + 1)
             ELSE MatchLoop_MaxDistance(
                    [self |-> Log(Assign(st.self, objectIDs[row], inputCentroids[col], inputBoxes[col]),
                                  [op |-> "match", id |-> objectIDs[row], col |-> col]),
                     usedRows |-> st.usedRows \cup {row},
                     usedCols |-> st.usedCols \cup {col}],
                    rows, cols, objectIDs, inputCentroids, inputBoxes, i + 1)

\* The matching loop with the nearest detection recomputed over the columns
\* that are still free when the one chosen over the full row is taken.
RECURSIVE MatchLoop_Recompute(_, _, _, _, _, _, _)
MatchLoop_Recompute(st, rows, cols, objectIDs, inputCentroids, inputBoxes, i) ==
    IF i > Len(rows) \/ ~Running(st.self) THEN st
    ELSE LET row == rows[i]
             free == (1..Len(inputCentroids)) \ st.usedCols
             d(j) == Dist(DictGet(st.self.objects, objectIDs[row]), inputCentroids[j])
             col == IF cols[i] \in st.usedCols /\ free # {}
                    THEN CHOOSE j \in free : \A h \in free : d(j) < d(h) \/ (d(j) = d(h) /\ j <= h)
                    ELSE cols[i]
         IN  IF Skip(row, col, st.usedRows, st.usedCols)
             THEN MatchLoop_Recompute(st, rows, cols, objectIDs, inputCentroids, inputBoxes, i + 1)
             ELSE MatchLoop_Recompute(
                    [self |-> Log(Assign(st.self, objectIDs[row], inputCentroids[col], inputBoxes[col]),
                                  [op |-> "match", id |-> objectIDs[row], col |-> col]),
                     usedRows |-> st.usedRows \cup {row},
                     usedCols |-> st.usedCols \cup {col}],
                    rows, cols, objectIDs, inputCentroids, inputBoxes, i + 1)

\* for (row, col) in zip(rows, cols): ...
RECURSIVE MatchLoop(_, _, _, _, _, _, _)
MatchLoop(st, rows, cols, objectIDs, inputCentroids, inputBoxes, i) ==
    IF i > Len(rows) \/ ~Running(st.self) THEN st
    ELSE LET row == rows[i]
             col == cols[i]
         IN  IF Skip(row, col, st.usedRows, st.usedCols)
             THEN MatchLoop(st, rows, cols, objectIDs, inputCentroids, inputBoxes, i + 1)
             ELSE MatchLoop(
                    [self |-> Log(Assign(st.self, objectIDs[row], inputCentroids[col], inputBoxes[col]),
                                  [op |-> "match", id |-> objectIDs[row], col |-> col]),
                     usedRows |-> st.usedRows \cup {row},
                     usedCols |-> st.usedCols \cup {col}],
                    rows, cols, objectIDs, inputCentroids, inputBoxes, i + 1)

\* The loop over the unused rows that counts the miss and never removes.
RECURSIVE UnusedRowsLoop_NoExpiry(_, _, _, _)
UnusedRowsLoop_NoExpiry(self, unusedRows, objectIDs, i) ==
    IF i > Len(unusedRows) \/ ~Running(self) THEN self
    ELSE UnusedRowsLoop_NoExpiry(
            [self EXCEPT !.disappeared =
                DictSet(@, objectIDs[unusedRows[i]],
                        DictGet(self.disappeared, objectIDs[unusedRows[i]]) + 1)],
            unusedRows, objectIDs, i + 1)

\* for row in unusedRows: ...
RECURSIVE UnusedRowsLoop(_, _, _, _)
UnusedRowsLoop(self, unusedRows, objectIDs, i) ==
    IF i > Len(unusedRows) \/ ~Running(self) THEN self
    ELSE UnusedRowsLoop(MarkDisappeared(self, objectIDs[unusedRows[i]]), unusedRows, objectIDs, i + 1)

\* The loop over the unused columns that registers them only when the frame
\* has more detections than objects are tracked.
RECURSIVE UnusedColsLoop_OnlyWhenMoreDetections(_, _, _, _, _)
UnusedColsLoop_OnlyWhenMoreDetections(self, unusedCols, inputCentroids, inputBoxes, i) ==
    IF i > Len(unusedCols) \/ ~Running(self) \/ Len(self.objects) >= Len(inputCentroids)
    THEN self
    ELSE UnusedColsLoop_OnlyWhenMoreDetections(
            Log(register(self, inputCentroids[unusedCols[i]], inputBoxes[unusedCols[i]]),
                [op |-> "register", id |-> self.nextObjectID, col |-> unusedCols[i]]),
            unusedCols, inputCentroids, inputBoxes, i + 1)

\* for col in unusedCols: self.register(inputCentroids[col], inputBoxes[col])
RECURSIVE UnusedColsLoop(_, _, _, _, _)
UnusedColsLoop(self, unusedCols, inputCentroids, inputBoxes, i) ==
    IF i > Len(unusedCols) \/ ~Running(self) THEN self
    ELSE UnusedColsLoop(
            Log(register(self, inputCentroids[unusedCols[i]], inputBoxes[unusedCols[i]]),
                [op |-> "register", id |-> self.nextObjectID, col |-> unusedCols[i]]),
            unusedCols, inputCentroids, inputBoxes, i + 1)

\* The else branch of update(): existing objects and detections.
MatchExisting(self, inputCentroids, inputBoxes) ==
    LET objectIDs == DictKeys(self.objects)
        objectCentroids == DictValues(self.objects)
        D == DistMatrix(objectCentroids, inputCentroids)
        rows == ArgSort([i \in 1..Len(D) |-> RowMin(D[i])])
        cols == Cols(D, rows)
        st == MatchLoop([self |-> self, usedRows |-> {}, usedCols |-> {}],
                        rows, cols, objectIDs, inputCentroids, inputBoxes, 1)
        unusedRows == SetDifference(Len(D), {r - 1 : r \in st.usedRows})
        unusedCols == SetDifference(Len(inputCentroids), {c - 1 : c \in st.usedCols})
        afterRows == UnusedRowsLoop(st.self, [i \in 1..Len(unusedRows) |-> unusedRows[i] + 1],
                                    objectIDs, 1)
    IN  UnusedColsLoop(afterRows, [i \in 1..Len(unusedCols) |-> unusedCols[i] + 1],
                       inputCentroids, inputBoxes, 1)

\* CentroidTracker.update(detections)
update(self, dets) ==
    IF Len(dets) = 0
    THEN DisappearAll(self, DictKeys(self.disappeared), 1)
    ELSE IF \E i \in 1..Len(dets) : CentroidRaises(dets[i]) # "none"
         \* The loop of lines 56-61 ends at the first box that raises, before
         \* any field of the tracker is written.
         THEN LET first == CHOOSE i \in 1..Len(dets) :
                             /\ CentroidRaises(dets[i]) # "none"
                             /\ \A h \in 1..(i - 1) : CentroidRaises(dets[h]) = "none"
              IN  Raise(self, CentroidRaises(dets[first]))
    ELSE LET inputCentroids == [i \in 1..Len(dets) |-> Centroid(dets[i])]
             inputBoxes == dets
         IN  IF Len(self.objects) = 0
             THEN RegisterAll(self, inputCentroids, inputBoxes, 1)
             ELSE MatchExisting(self, inputCentroids, inputBoxes)

-----------------------------------------------------------------------------
(* The state machine.                                                      *)

Self == [nextObjectID |-> nextObjectID, objects |-> objects,
         disappeared |-> disappeared, object_boxes |-> object_boxes,
         maxDisappeared |-> maxDisappeared, raised |-> raised, events |-> <<>>]

EventIds(evs, op) == {evs[i].id : i \in {h \in 1..Len(evs) : evs[h].op = op}}
EventCount(evs, op) == Cardinality({h \in 1..Len(evs) : evs[h].op = op})
\* The detection index of the match or register event of id in evs.
EventCol(evs, id) ==
    evs[CHOOSE h \in 1..Len(evs) : evs[h].id = id /\ evs[h].op \in {"match", "register"}].col

\* History of one id over an update: the number of updates in a row in
\* which it was neither matched nor registered, and the box it was last
\* given. The box is remembered through the update that makes the run
\* longer than maxDisappeared and forgotten in the one after it, where the
\* count stops at maxDisappeared + 2.
SeenAfter(evs, dets, id) ==
    IF id \in EventIds(evs, "match") \cup EventIds(evs, "register")
    THEN [missed |-> 0, box |-> dets[EventCol(evs, id)]]
    ELSE IF seen[id].missed > maxDisappeared
         THEN [missed |-> maxDisappeared + 2, box |-> <<>>]
         ELSE [missed |-> seen[id].missed + 1, box |-> seen[id].box]

\* The detection box det is nearer to the place of box last than to any
\* tracked object.
Near(last, det) ==
    \A h \in 1..Len(objects) :
        Dist(Centroid(last), Centroid(det)) < Dist(objects[h].v, Centroid(det))

\* The largest squared distance between the centroids of two boxes a frame
\* may hold.
FarthestApart ==
    LET ds == {Dist(Centroid(a), Centroid(b)) : a, b \in DetectionBoxes}
    IN  CHOOSE m \in ds : \A d \in ds : d <= m

\* Before the first request, and after the tables were dropped: no answer.
NoAnswer == [op |-> "none", status |-> 0, logged_in |-> FALSE, order_id |-> 0]

\* CentroidTracker(maxDisappeared)
MonitorInit ==
    /\ nextObjectID = 0
    /\ objects = <<>>
    /\ disappeared = <<>>
    /\ object_boxes = <<>>
    /\ maxDisappeared \in 0..MaxMaxDisappeared
    /\ raised = "none"
    /\ detections = <<>>
    /\ events = <<>>
    /\ registrations = 0
    /\ deregistered = {}
    /\ seen = [id \in {} |-> 0]
    /\ emptyRun = 0
    /\ emptyRunNext = 0
    /\ reappeared = {}
    /\ recovered = FALSE
    /\ leapt = FALSE

\* The row of table users that init_db() adds, and the attraction that it
\* loads from default_attractions.json.
Users == {[user_id |-> 1, username |-> "admin", password |-> "password", role |-> "admin"]}
SampleAttractions == {[attraction_id |-> "borobudur", price |-> 101]}

\* The ticket shop before its first request, init_db() done: the tables
\* exist, orders and order_items are empty, the client has no session.
TicketsInit ==
    /\ schema = TRUE
    /\ users = Users
    /\ attractions = SampleAttractions
    /\ orders = {}
    /\ order_items = {}
    /\ pending = {}
    /\ session = <<>>
    /\ answer = NoAnswer
    /\ asked = FALSE
    /\ loggedIn = FALSE

Init == MonitorInit /\ TicketsInit /\ mailConfigured = FALSE

\* The except clauses of the stream loop that catch only the end of the
\* stream: any other exception lets the loop go on to the next frame.
Ends_OnStopIterationOnly(e) == e = "StopIteration"

\* except StopIteration: ... break / except Exception as e: ... break
Ends(e) == e # "none"

\* One iteration of the stream loop of process_input over a frame with the
\* detections dets: tracker.update(dets), and then fault, the exception a
\* later statement of the try block raises ("none" when none does).
Iterate(dets, maxObjectID, fault) ==
    \E t \in {update(Self, dets)} :
        /\ ~Ends(raised)
        \* The cap on the counter: a frame that would register past it is left out.
        /\ t.nextObjectID <= maxObjectID
        /\ nextObjectID' = t.nextObjectID
        /\ objects' = t.objects
        /\ disappeared' = t.disappeared
        /\ object_boxes' = t.object_boxes
        /\ maxDisappeared' = t.maxDisappeared
        /\ raised' = IF t.raised = "none" THEN fault ELSE t.raised
        /\ detections' = dets
        /\ events' = t.events
        /\ registrations' = registrations + EventCount(t.events, "register")
        /\ deregistered' = deregistered \cup EventIds(t.events, "deregister")
        /\ seen' = [id \in DOMAIN seen \cup EventIds(t.events, "register") |->
                        SeenAfter(t.events, dets, id)]
        /\ emptyRun' = IF dets = <<>>
                       THEN (IF emptyRun > MaxMaxDisappeared THEN emptyRun ELSE emptyRun + 1)
                       ELSE 0
        /\ emptyRunNext' = IF dets = <<>> THEN emptyRunNext ELSE t.nextObjectID
        /\ reappeared' = {id \in DOMAIN seen :
                            /\ seen[id].missed = maxDisappeared + 1
                            /\ \E h \in 1..Len(t.events) :
                                  /\ t.events[h].op = "register"
                                  /\ Near(seen[id].box, dets[t.events[h].col])}
        /\ recovered' = \E id \in EventIds(t.events, "match") : DictGet(disappeared, id) > 0
        /\ leapt' = /\ Len(objects) = 1 /\ Len(dets) = 1
                    /\ EventIds(t.events, "match") # {}
                    /\ Dist(objects[1].v, Centroid(dets[1])) >= FarthestApart
        /\ UNCHANGED tickets

\* One call tracker.update(dets), as process_input makes per frame until
\* its loop ends.
UpdateUpTo(dets, maxObjectID) == Iterate(dets, maxObjectID, "none")

Update(dets) == UpdateUpTo(dets, MaxObjectID)

Next == \E dets \in Frames : Update(dets)

Spec == Init /\ [][Next]_vars

\* The same tracker in front of the crowded scene.
UpdateCrowd(dets) == UpdateUpTo(dets, CrowdMaxObjectID)

\* People join the queue.
Join == \E k \in 0..QueueLen : Len(objects) <= k /\ UpdateCrowd(Queue(k))
\* A group walks into the empty scene.
Gather == \E b \in 1..GroupSize : objects = <<>> /\ UpdateCrowd(Group(b))
\* Everybody but the people on the first two spots is out of sight.
Thin == objects # <<>> /\ UpdateCrowd(Queue(2))

NextCrowd == Join \/ Gather \/ Thin

SpecCrowd == Init /\ [][NextCrowd]_vars

\* The stream loop with its failures. A frame holds at most StreamMaxDets
\* people. Leaving the loop on the key q is the end of the behaviour.
StreamFrames == UNION {[1..n -> DetectionBoxes] : n \in 0..StreamMaxDets}

\* A frame is read and processed to the end of the try block.
NextFrame == \E dets \in StreamFrames : Iterate(dets, MaxObjectID, "none")
\* A statement before tracker.update() raises: next() itself, or the
\* reading of the boxes.
FrameFails ==
    /\ ~Ends(raised)
    /\ raised' = "Exception"
    /\ UNCHANGED <<nextObjectID, objects, disappeared, object_boxes, maxDisappeared,
                   detections, events, registrations, deregistered, seen, emptyRun,
                   emptyRunNext, reappeared, recovered, leapt, tickets>>
\* A statement after tracker.update() raises: the drawing or the display.
FrameFailsLate == \E dets \in StreamFrames : Iterate(dets, MaxObjectID, "Exception")
\* next() raises StopIteration.
EndOfStream ==
    /\ ~Ends(raised)
    /\ raised' = "StopIteration"
    /\ UNCHANGED <<nextObjectID, objects, disappeared, object_boxes, maxDisappeared,
                   detections, events, registrations, deregistered, seen, emptyRun,
                   emptyRunNext, reappeared, recovered, leapt, tickets>>

NextStream == NextFrame \/ FrameFails \/ FrameFailsLate \/ EndOfStream

SpecStream == Init /\ [][NextStream]_vars

\* The tracker called with boxes of any numbers. A call that returns:
UpdateReturns ==
    \E dets \in BoxFrames :
        /\ update(Self, dets).raised = "none"
        /\ Update(dets)
\* A call that raises: the loop of process_input ends with the exception,
\* and the histories, which follow the calls that return, stay as they are.
UpdateRaises ==
    \E dets \in BoxFrames :
        \E t \in {update(Self, dets)} :
            /\ ~Ends(raised)
            /\ t.raised # "none"
            /\ nextObjectID' = t.nextObjectID
            /\ objects' = t.objects
            /\ disappeared' = t.disappeared
            /\ object_boxes' = t.object_boxes
            /\ maxDisappeared' = t.maxDisappeared
            /\ raised' = t.raised
            /\ detections' = dets
            /\ events' = t.events
            /\ UNCHANGED <<registrations, deregistered, seen, emptyRun, emptyRunNext,
                           reappeared, recovered, leapt, tickets>>

NextBoxes == UpdateReturns \/ UpdateRaises

SpecBoxes == Init /\ [][NextBoxes]_vars

-----------------------------------------------------------------------------
(* Properties.                                                             *)

\* The ids a step adds to the mapping.
NewIds == DictKeySet(objects') \ DictKeySet(objects)

\* C1: nextObjectID always equals the number of registrations performed so
\* far; every update that registers n objects gives them the ids
\* nextObjectID .. nextObjectID + n - 1 and adds n to the counter, so the
\* counter never decreases, whatever was deregistered.
C1_NextIdCountsRegistrations ==
    /\ [](nextObjectID = registrations)
    /\ [][/\ nextObjectID' >= nextObjectID
          /\ nextObjectID' = nextObjectID + EventCount(events', "register")
          /\ NewIds = nextObjectID..(nextObjectID' - 1)]_vars

\* C1 witness: three registrations done and an object deregistered.
C1_Witness == registrations = 3 /\ deregistered # {} /\ Len(objects) >= 1

\* C2: an id that was deregistered is in none of the three dicts in any
\* later state, and no later registration assigns it: it is below the
\* counter and not among the ids a step adds.
C2_DeregisteredNeverReturns ==
    /\ [](\A id \in deregistered :
            /\ ~DictHas(objects, id)
            /\ ~DictHas(object_boxes, id)
            /\ ~DictHas(disappeared, id)
            /\ id < nextObjectID)
    /\ [][NewIds \cap deregistered' = {}]_vars

\* C2 witness: an id was deregistered and a later update registered a new
\* object.
C2_Witness ==
    /\ deregistered # {}
    /\ \E h \in 1..Len(events) :
          events[h].op = "register" /\ \E id \in deregistered : id < events[h].id

\* C3: in every state, every tracked id has a disappeared count in
\* 0..maxDisappeared.
C3_DisappearedInRange ==
    \A id \in DictKeySet(objects) \cup DictKeySet(disappeared) :
        /\ DictHas(disappeared, id)
        /\ DictGet(disappeared, id) >= 0
        /\ DictGet(disappeared, id) <= maxDisappeared

\* C3 witness: an update with detections removed one object and left
\* another at the limit.
C3_Witness ==
    /\ detections # <<>>
    /\ EventCount(events, "deregister") >= 1
    /\ maxDisappeared >= 1
    /\ \E i \in 1..Len(disappeared) : disappeared[i].v = maxDisappeared

\* C4: an id that has gone k updates in a row without being matched, since
\* it was last matched or registered, is in the mapping exactly when
\* k <= maxDisappeared, and then with the box it was last given.
C4_RemovedExactlyAfterLimit ==
    \A id \in DOMAIN seen :
        /\ (seen[id].missed <= maxDisappeared) <=> DictHas(object_boxes, id)
        /\ (seen[id].missed <= maxDisappeared) <=> DictHas(objects, id)
        /\ DictHas(object_boxes, id) => DictGet(object_boxes, id) = seen[id].box

\* C4 witness: one id has just been removed in its (maxDisappeared+1)-th
\* unmatched update while another is still there after maxDisappeared of
\* them.
C4_Witness ==
    /\ maxDisappeared = 2
    /\ \E id \in DOMAIN seen : seen[id].missed = 2 /\ DictHas(object_boxes, id)
    /\ \E id \in DOMAIN seen : seen[id].missed = 3 /\ ~DictHas(object_boxes, id)

\* C5: after maxDisappeared + 1 update([]) calls in a row the mapping is
\* empty and nextObjectID is what it was when the run began.
C5_EmptyRunClearsAll ==
    emptyRun > maxDisappeared =>
        /\ objects = <<>>
        /\ object_boxes = <<>>
        /\ disappeared = <<>>
        /\ nextObjectID = emptyRunNext

\* C5 witness: the (maxDisappeared+1)-th update([]) of a run removed two
\* objects.
C5_Witness ==
    /\ maxDisappeared >= 1
    /\ emptyRun = maxDisappeared + 1
    /\ detections = <<>>
    /\ EventCount(events, "deregister") = 2

\* What update([]) must leave of a dict d: the entries whose count stays
\* within the limit, in their order.
Survivors(d) ==
    SelectSeq(d, LAMBDA e : DictGet(disappeared, e.k) + 1 <= maxDisappeared)

\* C6: update([]) adds 1 to every disappeared count, removes exactly the
\* ids whose count then exceeds maxDisappeared, and changes nothing else:
\* the surviving centroids and boxes, their order and nextObjectID stay.
C6_EmptyUpdateFrame ==
    [][detections' = <<>> =>
        /\ disappeared' = [i \in 1..Len(Survivors(disappeared)) |->
                              [k |-> Survivors(disappeared)[i].k,
                               v |-> Survivors(disappeared)[i].v + 1]]
        /\ objects' = Survivors(objects)
        /\ object_boxes' = Survivors(object_boxes)
        /\ nextObjectID' = nextObjectID
        /\ maxDisappeared' = maxDisappeared
        /\ EventCount(events', "register") = 0]_vars

\* C6 witness: an update([]) removed one object and kept another.
C6_Witness ==
    /\ detections = <<>>
    /\ emptyRun >= 1
    /\ EventCount(events, "deregister") = 1
    /\ Len(objects) >= 1

\* C7: update() with n >= 1 detections on an empty mapping registers all of
\* them: detection j (from 1) gets id nextObjectID + j - 1, its centroid,
\* its box and a disappeared count of 0.
C7_RegisterAllInOrder ==
    [][(objects = <<>> /\ detections' # <<>>) =>
        /\ objects' = [j \in 1..Len(detections') |->
                          [k |-> nextObjectID + j - 1, v |-> Centroid(detections'[j])]]
        /\ object_boxes' = [j \in 1..Len(detections') |->
                               [k |-> nextObjectID + j - 1, v |-> detections'[j]]]
        /\ disappeared' = [j \in 1..Len(detections') |->
                              [k |-> nextObjectID + j - 1, v |-> 0]]
        /\ nextObjectID' = nextObjectID + Len(detections')]_vars

\* C7 witness: two different detections were registered on a mapping that
\* deregistration had emptied.
C7_Witness ==
    /\ deregistered # {}
    /\ Len(detections) = 2
    /\ detections[1] # detections[2]
    /\ Len(objects) = 2
    /\ \A h \in 1..Len(events) : events[h].op = "register"

\* The match events of the latest update.
Matches == {h \in 1..Len(events) : events[h].op = "match"}

\* C8: within one update no detection is matched to two objects and no
\* object is matched to two detections.
C8_MatchingOneToOne ==
    \A g, h \in Matches :
        g # h => (events[g].id # events[h].id /\ events[g].col # events[h].col)

\* C8 witness: two objects had the same single detection as their nearest,
\* one was matched to it and the other stayed unmatched.
C8_Witness ==
    /\ Len(detections) = 1
    /\ Cardinality(Matches) = 1
    /\ Len(objects) = 2

\* The centroid of detection j of the frame of this step.
InputCentroid(j) == Centroid(detections'[j])

\* Object i moves to detection j by less than the distance from its old and
\* from its new position to every other tracked object and to every other
\* detection of the frame.
MovesAlone(i, j) ==
    LET move == Dist(objects[i].v, InputCentroid(j))
    IN  /\ \A h \in (1..Len(objects)) \ {i} :
              /\ move < Dist(objects[i].v, objects[h].v)
              /\ move < Dist(InputCentroid(j), objects[h].v)
        /\ \A g \in (1..Len(detections')) \ {j} :
              /\ move < Dist(objects[i].v, InputCentroid(g))
              /\ move < Dist(InputCentroid(j), InputCentroid(g))

\* Object i moves to detection j by less than its distance to every other
\* tracked object, and by less than the distance from where it was and from
\* where it is detected to every other detection of the frame. Where the
\* object is detected may still be nearer to another tracked object than to
\* where it was.
MovesLessThanApart(i, j) ==
    LET move == Dist(objects[i].v, InputCentroid(j))
    IN  /\ \A h \in (1..Len(objects)) \ {i} : move < Dist(objects[i].v, objects[h].v)
        /\ \A g \in (1..Len(detections')) \ {j} :
              /\ move < Dist(objects[i].v, InputCentroid(g))
              /\ move < Dist(InputCentroid(j), InputCentroid(g))

\* Object i is stored under its id with detection j after the step.
KeepsId(i, j) ==
    /\ DictHas(objects', objects[i].k)
    /\ DictGet(objects', objects[i].k) = InputCentroid(j)
    /\ DictGet(object_boxes', objects[i].k) = detections'[j]
    /\ DictGet(disappeared', objects[i].k) = 0

\* C9 as stated: an object whose detection in the frame moved by less than
\* its distance to any other object or detection keeps its id.
C9_ContinuityWhenFartherThanMove ==
    [][\A i \in 1..Len(objects) : \A j \in 1..Len(detections') :
          MovesLessThanApart(i, j) => KeepsId(i, j)]_vars

\* C9 amended: an object whose detection in the frame moved by less than the
\* distance from where it was, and from where it is detected, to every other
\* tracked object and to every other detection keeps its id: after the
\* update its id holds that detection's centroid and box, with a count of 0.
C9_SingleObjectContinuity ==
    [][\A i \in 1..Len(objects) : \A j \in 1..Len(detections') :
          MovesAlone(i, j) => KeepsId(i, j)]_vars

\* C9 witness: with two objects tracked and two detections in the frame,
\* id 0 has followed its detection from (0,0) to (-1,0) while the other
\* object and detection were at (2,0).
C9_Witness ==
    /\ Len(detections) = 2
    /\ Len(objects) = 2
    /\ nextObjectID = 2
    /\ objects[1] = [k |-> 0, v |-> <<-1, 0>>]
    /\ objects[2] = [k |-> 1, v |-> <<2, 0>>]
    /\ \A h \in 1..Len(events) : events[h].op = "match"
    /\ \E id \in DOMAIN seen : seen[id].missed = 0 /\ seen[id].box = <<0, 0, -2, 1>>

\* The ways to say which tracked object each detection of the frame comes
\* from: every detection from one object, no two from the same.
Origins ==
    {f \in [1..Len(detections') -> 1..Len(objects)] :
        \A g, h \in 1..Len(detections') : g # h => f[g] # f[h]}

\* Under origin f the squared movement of each detected object, times
\* factor, is below its squared distance to every other tracked object.
Separated(f, factor) ==
    \A j \in 1..Len(detections') : \A h \in (1..Len(objects)) \ {f[j]} :
        factor * Dist(objects[f[j]].v, InputCentroid(j)) < Dist(objects[f[j]].v, objects[h].v)

\* The detections keep the distance too: any two of them are farther apart
\* than the movement of the objects they come from.
SeparatedAfter(f) ==
    \A g, h \in 1..Len(detections') :
        g # h => Dist(objects[f[g]].v, InputCentroid(g)) < Dist(InputCentroid(g), InputCentroid(h))

\* No id changes hands: each detection is stored under the id of the object
\* it comes from, an object without a detection keeps its box or is
\* removed, and no id is added.
NoSwap(f) ==
    /\ \A j \in 1..Len(detections') :
          /\ DictHas(object_boxes', objects[f[j]].k)
          /\ DictGet(object_boxes', objects[f[j]].k) = detections'[j]
          /\ DictGet(objects', objects[f[j]].k) = InputCentroid(j)
    /\ \A i \in (1..Len(objects)) \ {f[j] : j \in 1..Len(detections')} :
          DictHas(object_boxes', objects[i].k) =>
              /\ DictGet(object_boxes', objects[i].k) = DictGet(object_boxes, objects[i].k)
              /\ DictGet(objects', objects[i].k) = objects[i].v
    /\ NewIds = {}

\* C10 as stated: objects farther apart than their movement in the frame,
\* before and after it, never swap ids.
C10_NoSwapWhenFartherThanMove ==
    [][\A f \in Origins :
          (Len(objects) >= 2 /\ detections' # <<>> /\ Separated(f, 1) /\ SeparatedAfter(f))
              => NoSwap(f)]_vars

\* C10 amended: objects more than twice as far apart as their movement in
\* the frame never swap ids (the distances are squared, hence the 4).
C10_NoSwapWhenTwiceAsFar ==
    [][\A f \in Origins :
          (Len(objects) >= 2 /\ detections' # <<>> /\ Separated(f, 4))
              => NoSwap(f)]_vars

\* C10 witness: ids 0 and 1 at (-3,0) and (2,0); in the latest frame only
\* the second object was detected, at (0,0), and id 0 kept its box.
C10_Witness ==
    /\ Len(detections) = 1
    /\ Len(objects) = 2
    /\ objects[1] = [k |-> 0, v |-> <<-3, 0>>]
    /\ objects[2] = [k |-> 1, v |-> <<0, 0>>]
    /\ DictGet(disappeared, 0) = 1
    /\ DictGet(disappeared, 1) = 0
    /\ \E id \in DOMAIN seen : seen[id].missed = 1 /\ seen[id].box = <<-3, -1, -3, 0>>

\* Detection j of the frame is no tracked object's nearest: each of them has
\* a detection of the frame that is nearer to it.
NoOneClaims(j) ==
    \A h \in 1..Len(objects) : \E g \in (1..Len(detections')) \ {j} :
        Dist(objects[h].v, InputCentroid(g)) < Dist(objects[h].v, InputCentroid(j))

\* Detection j of the frame is stored under an id the step adds.
RegisteredAsNew(j) ==
    \E n \in NewIds :
        /\ n >= nextObjectID
        /\ DictGet(object_boxes', n) = detections'[j]
        /\ DictGet(objects', n) = InputCentroid(j)
        /\ DictGet(disappeared', n) = 0

\* C11 as stated: one of two tracked objects that has gone unmatched for 1
\* to maxDisappeared updates and is then detected near its last position,
\* apart from everything else, loses its id, and the detection gets a new
\* one.
C11_NewIdWithinLimit ==
    [][\A i \in 1..Len(objects) : \A j \in 1..Len(detections') :
          (/\ Len(objects) = 2
           /\ disappeared[i].v >= 1
           /\ disappeared[i].v <= maxDisappeared
           /\ MovesAlone(i, j))
              => (~DictHas(objects', objects[i].k) /\ RegisteredAsNew(j))]_vars

\* Detection j of the frame is stored under the id of an object that was
\* tracked before the step.
TakenByTracked(j) ==
    \E h \in 1..Len(objects) :
        /\ DictHas(object_boxes', objects[h].k)
        /\ DictGet(object_boxes', objects[h].k) = detections'[j]
        /\ DictGet(objects', objects[h].k) = InputCentroid(j)

\* C11 amended: an object that has gone unmatched for 1 to maxDisappeared
\* updates and is then detected near its last position, apart from
\* everything else, resumes its id. An id that has gone unmatched for more
\* than maxDisappeared updates is not in the mapping and does not come back.
\* A detection in a frame after that is stored under a new, higher id when
\* every tracked object has another detection of the frame nearer to it;
\* when it is the only detection of the frame and an object is tracked, it
\* is stored under the id of a tracked object and no id is added.
C11_NewIdOnlyAfterLimit ==
    [][/\ \A i \in 1..Len(objects) : \A j \in 1..Len(detections') :
            (disappeared[i].v >= 1 /\ disappeared[i].v <= maxDisappeared /\ MovesAlone(i, j))
                => /\ DictHas(objects', objects[i].k)
                   /\ DictGet(object_boxes', objects[i].k) = detections'[j]
                   /\ ~RegisteredAsNew(j)
       /\ \A id \in DOMAIN seen :
            seen[id].missed > maxDisappeared
                => /\ ~DictHas(objects', id)
                   /\ ~DictHas(object_boxes', id)
                   /\ ~DictHas(disappeared', id)
                   /\ \A j \in 1..Len(detections') :
                         /\ NoOneClaims(j) => (RegisteredAsNew(j) /\ \A n \in NewIds : n > id)
                         /\ (Len(detections') = 1 /\ objects # <<>>)
                                => (TakenByTracked(j) /\ NewIds = {})]_vars

\* C11 witness: of two tracked objects one was removed after
\* maxDisappeared + 1 updates without a detection; in the latest frame the
\* other was matched again and the detection at the removed one's last
\* position was registered under a new id.
C11_Witness ==
    /\ maxDisappeared >= 1
    /\ reappeared # {}
    /\ Len(detections) = 2
    /\ Len(objects) = 2
    /\ Cardinality(Matches) = 1
    /\ EventCount(events, "register") = 1
    /\ \A id \in reappeared : id \in deregistered /\ ~DictHas(objects, id)

\* The events of the latest update that stored a detection.
Stores == {h \in 1..Len(events) : events[h].op \in {"match", "register"}}

\* Every box of the latest call is in the mapping, stored by a match or a
\* registration, with its four coordinates as given.
BoxesStoredAsGiven ==
    /\ \A j \in 1..Len(detections) : \E h \in Stores : events[h].col = j
    /\ \A h \in Stores :
          /\ DictHas(object_boxes, events[h].id)
          /\ DictGet(object_boxes, events[h].id) = detections[events[h].col]

\* The four coordinates of the box are finite numbers within 64 bits.
FiniteBox(box) == \A c \in 1..4 : -MaxCoord <= box[c] /\ box[c] <= MaxCoord

Unmatched(j) == \A h \in 1..Len(events') : ~(events'[h].op = "match" /\ events'[h].col = j)

\* C14: an update with detections and existing objects registers every
\* detection that no object was matched to, and gives the new ids in
\* increasing order of the detections' index in the frame, however many
\* detections there are.
C14_UnmatchedRegisteredInIndexOrder ==
    [][(objects # <<>> /\ detections' # <<>>) =>
          /\ \A j \in 1..Len(detections') : Unmatched(j) => RegisteredAsNew(j)
          /\ \A g, h \in 1..Len(events') :
                (/\ events'[g].op = "register"
                 /\ events'[h].op = "register"
                 /\ events'[g].col < events'[h].col)
                    => events'[g].id < events'[h].id]_vars

\* The distance matrix of an update of the tracked objects objs with the
\* frame dets, and whether its events evs match object i to detection j.
StepD(objs, dets) ==
    DistMatrix(DictValues(objs), [j \in 1..Len(dets) |-> Centroid(dets[j])])
MatchedTo(objs, evs, i, j) ==
    \E h \in 1..Len(evs) : evs[h].op = "match" /\ evs[h].id = objs[i].k /\ evs[h].col = j
Matched(objs, dets, evs, i) == \E j \in 1..Len(dets) : MatchedTo(objs, evs, i, j)

\* Of two objects with the same minimum distance and the same nearest
\* detection, the one later in the mapping's order is not matched to it.
TieGoesToEarlier(objs, dets, evs) ==
    LET D == StepD(objs, dets)
        min == [i \in 1..Len(D) |-> RowMin(D[i])]
        near == [i \in 1..Len(D) |-> ArgMin(D[i])]
    IN  \A a, b \in 1..Len(objs) :
            (a < b /\ min[a] = min[b] /\ near[a] = near[b])
                => ~MatchedTo(objs, evs, b, near[b])

\* C15: of two tracked objects with the same minimum distance and the same
\* nearest detection, the one later in the mapping's order is not the one
\* matched to it, however many objects are tracked.
C15_TieGoesToEarlierObject ==
    [][detections' # <<>> => TieGoesToEarlier(objects, detections', events')]_vars

\* A matched object has no strictly nearer object with the same nearest
\* detection; an object that is not matched to its nearest detection has
\* another object with that nearest detection at least as near.
CloserWins(objs, dets, evs) ==
    LET D == StepD(objs, dets)
        near == [i \in 1..Len(D) |-> ArgMin(D[i])]
    IN  \A b \in 1..Len(objs) :
            /\ Matched(objs, dets, evs, b) =>
                  \A a \in (1..Len(objs)) \ {b} :
                      D[a][near[b]] < D[b][near[b]] => near[a] # near[b]
            /\ ~MatchedTo(objs, evs, b, near[b]) =>
                  \E g \in (1..Len(objs)) \ {b} :
                      D[g][near[b]] <= D[b][near[b]] /\ near[g] = near[b]

\* C16: objects are processed in ascending order of their minimum distance.
\* Of two tracked objects with the same nearest detection, the one strictly
\* farther from it is left unmatched, and an object strictly nearer to its
\* nearest detection than every other object that has it as nearest is
\* matched to it (stated per object, by contraposition).
C16_CloserObjectWins ==
    [][detections' # <<>> => CloserWins(objects, detections', events')]_vars

\* C16 witness: two objects and a single detection; the object later in the
\* mapping was matched and the earlier one was not, which only happens when
\* the later one is strictly nearer.
C16_Witness ==
    /\ Len(detections) = 1
    /\ Len(objects) = 2
    /\ events = <<[op |-> "match", id |-> objects[2].k, col |-> 1]>>
    /\ disappeared[1].v >= 1
    /\ disappeared[2].v = 0

\* An object whose nearest detection went to another object is not matched
\* at all: its count is one higher after the update, or it is gone because
\* that count is over the limit; and every detection that no object was
\* matched to is registered with its own centroid and box.
NotRecomputed(objs, cnts, dets, evs, objsAfter, cntsAfter, boxesAfter, limit) ==
    LET D == StepD(objs, dets)
        near == [i \in 1..Len(D) |-> ArgMin(D[i])]
        taken(b) == \E g \in (1..Len(objs)) \ {b} : MatchedTo(objs, evs, g, near[b])
        free(j) == \A g \in 1..Len(objs) : ~MatchedTo(objs, evs, g, j)
    IN  \A b \in 1..Len(objs) :
            taken(b) =>
                /\ ~Matched(objs, dets, evs, b)
                /\ IF DictHas(cntsAfter, objs[b].k)
                   THEN DictGet(cntsAfter, objs[b].k) = DictGet(cnts, objs[b].k) + 1
                   ELSE DictGet(cnts, objs[b].k) + 1 > limit
                /\ \A j \in 1..Len(dets) :
                       free(j) =>
                           \E h \in 1..Len(evs) :
                               /\ evs[h].op = "register" /\ evs[h].col = j
                               /\ ~DictHas(objs, evs[h].id)
                               /\ DictHas(objsAfter, evs[h].id)
                               /\ DictGet(objsAfter, evs[h].id) = Centroid(dets[j])
                               /\ DictGet(boxesAfter, evs[h].id) = dets[j]

\* C17: the nearest detection is chosen over the whole frame and not chosen
\* again over what remains: an object whose nearest detection was taken by
\* another object is left unmatched (its count grows by one, and it is removed
\* when that exceeds the limit) even when other detections are unassigned,
\* and those detections are registered as new objects.
C17_NearestNotRecomputed ==
    [][detections' # <<>> =>
          NotRecomputed(objects, disappeared, detections', events',
                        objects', disappeared', object_boxes', maxDisappeared)]_vars

\* C17 witness: in a frame of at least two detections one object was matched,
\* another object was left unmatched and is still tracked with a count of at
\* least one, and a detection that stayed free was registered as new.
C17_Witness ==
    /\ Len(detections) >= 2
    /\ \E h \in 1..Len(events) : events[h].op = "match"
    /\ \E h \in 1..Len(events) : events[h].op = "register"
    /\ \E i \in 1..Len(disappeared) : disappeared[i].v >= 1

\* Every match of the update pairs an object with a detection whose centroid
\* is no farther from the object's stored centroid than any other detection's
\* and strictly nearer than that of every detection before it in the frame.
MatchesNearest(objs, dets, evs) ==
    \A h \in 1..Len(evs) :
        evs[h].op = "match" =>
            LET stored == DictGet(objs, evs[h].id)
                d == [j \in 1..Len(dets) |-> Dist(stored, Centroid(dets[j]))]
            IN  \A j \in 1..Len(dets) :
                    /\ d[evs[h].col] <= d[j]
                    /\ j < evs[h].col => d[evs[h].col] < d[j]

\* C18: a matched object is matched to the detection at minimum Euclidean
\* centroid distance from its stored centroid among all detections of the
\* frame, and among detections at that distance to the one of lowest index.
C18_MatchedToNearestLowestIndex ==
    [][detections' # <<>> => MatchesNearest(objects, detections', events')]_vars

\* C18 witness: a frame of two different boxes with the same centroid, hence
\* at the same distance from every object; an object was matched to the
\* first and holds its box.
C18_Witness ==
    /\ Len(detections) = 2
    /\ detections[1] # detections[2]
    /\ Centroid(detections[1]) = Centroid(detections[2])
    /\ \E h \in 1..Len(events) :
           /\ events[h].op = "match" /\ events[h].col = 1
           /\ DictGet(object_boxes, events[h].id) = detections[1]

\* Every object the update matched is still tracked under its id, holds the
\* centroid and the box of the detection it was matched to, and has count 0.
MatchedTakesDetection(objs, dets, evs, objsAfter, cntsAfter, boxesAfter) ==
    \A h \in 1..Len(evs) :
        evs[h].op = "match" =>
            /\ DictHas(objs, evs[h].id)
            /\ DictHas(objsAfter, evs[h].id)
            /\ DictGet(objsAfter, evs[h].id) = Centroid(dets[evs[h].col])
            /\ DictGet(boxesAfter, evs[h].id) = dets[evs[h].col]
            /\ DictGet(cntsAfter, evs[h].id) = 0

\* C19: an object matched to a detection keeps its id, its centroid and box
\* become the centroid and box of that detection, and its count becomes 0
\* whatever it was before.
C19_MatchReplacesAndResets ==
    [][detections' # <<>> =>
          MatchedTakesDetection(objects, detections', events',
                                objects', disappeared', object_boxes')]_vars

\* C19 witness: the only object the latest update matched had missed at
\* least one update before it; it now holds the box of its detection, away
\* from the origin, and has count 0.
C19_Witness ==
    \E h \in 1..Len(events) :
        /\ events[h].op = "match"
        /\ EventCount(events, "match") = 1
        /\ recovered
        /\ DictGet(disappeared, events[h].id) = 0
        /\ DictGet(object_boxes, events[h].id) = detections[events[h].col]
        /\ Centroid(detections[events[h].col]) # <<0, 0>>

\* Every object the update did not match has a count one higher than before;
\* over the limit it is gone from the three dicts, otherwise it is still
\* there with the centroid and the box it had.
UnmatchedAges(objs, cnts, boxes, dets, evs, objsAfter, cntsAfter, boxesAfter, limit) ==
    \A b \in 1..Len(objs) :
        ~Matched(objs, dets, evs, b) =>
            LET id == objs[b].k
                count == DictGet(cnts, id) + 1
            IN  IF count > limit
                THEN /\ ~DictHas(objsAfter, id)
                     /\ ~DictHas(cntsAfter, id)
                     /\ ~DictHas(boxesAfter, id)
                ELSE /\ DictHas(objsAfter, id) /\ DictHas(cntsAfter, id) /\ DictHas(boxesAfter, id)
                     /\ DictGet(cntsAfter, id) = count
                     /\ DictGet(objsAfter, id) = DictGet(objs, id)
                     /\ DictGet(boxesAfter, id) = DictGet(boxes, id)

\* C20: in an update with detections and tracked objects, every tracked
\* object that is not matched has its count increased by exactly 1 and is
\* removed when the count then exceeds maxDisappeared; when it stays, its
\* centroid and box are unchanged, so the mapping returned reports its
\* previous box.
C20_UnmatchedCountedOrRemoved ==
    [][(detections' # <<>> /\ objects # <<>>) =>
          UnmatchedAges(objects, disappeared, object_boxes, detections', events',
                        objects', disappeared', object_boxes', maxDisappeared)]_vars

\* C20 witness: the latest update had detections and matched one object;
\* another object went unmatched for the second time running and is reported
\* with the box it was last given, which is not a box of this frame.
C20_Witness ==
    /\ detections # <<>>
    /\ EventCount(events, "match") >= 1
    /\ \E i \in 1..Len(disappeared) :
           /\ disappeared[i].v = 2
           /\ DictGet(object_boxes, disappeared[i].k) = seen[disappeared[i].k].box
           /\ \A j \in 1..Len(detections) :
                  detections[j] # DictGet(object_boxes, disappeared[i].k)

\* c is the half of the sum s cut toward zero: twice c is within 1 of s and
\* never farther from zero than s.
TruncatedHalf(c, s) ==
    /\ 2 * c \in {s - 1, s, s + 1}
    /\ (IF c >= 0 THEN 2 * c ELSE -(2 * c)) <= (IF s >= 0 THEN s ELSE -s)

\* C21: the stored centroid of every tracked object is ((x1+x2)/2, (y1+y2)/2)
\* of its stored box, each coordinate truncated toward zero, also when the
\* sum is negative and odd.
C21_CentroidTruncatesTowardZero ==
    \A i \in 1..Len(objects) :
        LET box == DictGet(object_boxes, objects[i].k)
        IN  /\ TruncatedHalf(objects[i].v[1], box[1] + box[3])
            /\ TruncatedHalf(objects[i].v[2], box[2] + box[4])

\* C21 witness: a tracked object whose box has x1 + x2 = -1 and the x
\* coordinate of whose centroid is 0, not -1.
C21_Witness ==
    \E i \in 1..Len(objects) :
        LET box == DictGet(object_boxes, objects[i].k)
        IN  box[1] + box[3] = -1 /\ objects[i].v[1] = 0

\* The three dicts of the tracker self have the same keys.
SameIds(self) ==
    /\ DictKeySet(self.objects) = DictKeySet(self.disappeared)
    /\ DictKeySet(self.objects) = DictKeySet(self.object_boxes)
    /\ Len(self.objects) = Cardinality(DictKeySet(self.objects))
    /\ Len(self.disappeared) = Len(self.objects)
    /\ Len(self.object_boxes) = Len(self.objects)

\* C22: in every state an update() returns to, and after a register() or a
\* deregister() called in that state (of a tracked id, or of one that is not
\* tracked, which raises and changes nothing), the centroids, the counts and
\* the boxes have the same ids, one entry each: the mapping returned has a
\* box for every tracked id and for no other.
C22_CollectionsShareIds ==
    /\ SameIds(Self)
    /\ \A box \in DetectionBoxes : SameIds(register(Self, Centroid(box), box))
    /\ \A id \in 0..MaxObjectID :
           /\ SameIds(deregister(Self, id))
           /\ ~DictHas(objects, id) =>
                  /\ deregister(Self, id).raised = "KeyError"
                  /\ deregister(Self, id).objects = objects

\* C22 witness: the latest update removed one object and registered another,
\* and two objects are tracked.
C22_Witness ==
    /\ EventCount(events, "deregister") >= 1
    /\ EventCount(events, "register") >= 1
    /\ Len(objects) = 2
    /\ Len(object_boxes) = 2

\* C23: the stream loop ends on the first end of stream and on the first
\* exception raised while a frame is processed: once either has happened no
\* frame is read and tracker.update() is not called, so nothing changes.
C23_LoopEndsOnFirstException ==
    [][raised = "none"]_vars

\* C23 witness: the loop was ended by an exception raised after frames had
\* been tracked.
C23_Witness ==
    /\ raised = "Exception"
    /\ Len(objects) >= 1
    /\ nextObjectID >= 2

\* The ids with a count of 0, and the events of the latest update that gave
\* detection j to an object.
ZeroCount == {disappeared[i].k : i \in {h \in 1..Len(disappeared) : disappeared[h].v = 0}}
Takers(j) ==
    {h \in 1..Len(events) : events[h].op \in {"match", "register"} /\ events[h].col = j}

\* C24, amended: after an update with n >= 1 detections exactly n tracked objects
\* have count 0, and the detections of the frame correspond one to one to
\* them: each detection was given to one object, matched or newly
\* registered, which has count 0 and holds that detection as its box, and no
\* two detections were given to the same object.
C24_DetectionsAreTheZeroCounts ==
    detections # <<>> =>
        /\ Cardinality(ZeroCount) = Len(detections)
        /\ \A j \in 1..Len(detections) :
               /\ Cardinality(Takers(j)) = 1
               /\ \A h \in Takers(j) :
                      /\ events[h].id \in ZeroCount
                      /\ DictGet(object_boxes, events[h].id) = detections[j]
        /\ \A j, k \in 1..Len(detections) :
               j # k => \A h \in Takers(j), g \in Takers(k) : events[h].id # events[g].id

\* C24 as stated: after an update with n >= 1 detections exactly n tracked
\* objects have count 0 and every detection of the frame is the stored box of
\* exactly one of them.
C24_EachDetectionStoredOnce ==
    detections # <<>> =>
        /\ Cardinality(ZeroCount) = Len(detections)
        /\ \A j \in 1..Len(detections) :
               Cardinality({id \in ZeroCount : DictGet(object_boxes, id) = detections[j]}) = 1

\* C24 witness: a frame of two detections, one matched to a tracked object
\* and one registered, while a third object went unmatched and keeps a
\* count above 0.
C24_Witness ==
    /\ Len(detections) = 2
    /\ EventCount(events, "match") = 1
    /\ EventCount(events, "register") = 1
    /\ Len(objects) = 3
    /\ Cardinality(ZeroCount) = 2

\* C25: in every reachable state the tracked mapping iterates its ids in
\* strictly ascending order, so the order of the rows before the sort, which
\* decides ties, is ascending id.
C25_MappingIteratesAscending ==
    /\ \A i, j \in 1..Len(objects) : i < j => objects[i].k < objects[j].k
    /\ DictKeys(disappeared) = DictKeys(objects)
    /\ DictKeys(object_boxes) = DictKeys(objects)

\* C25 witness: an id between two tracked ones has been removed, and the
\* latest update matched the older of the two, which is still first.
C25_Witness ==
    /\ Len(objects) = 2
    /\ objects[2].k > objects[1].k + 1
    /\ objects[1].k + 1 \in deregistered
    /\ \E h \in 1..Len(events) : events[h].op = "match" /\ events[h].id = objects[1].k

\* The update of the single tracked object of objs with the single detection
\* of dets did one thing, the match of the two: no id was given out and the
\* mapping holds that id alone, with the centroid and the box of the detection.
SoleMatch(objs, dets, evs, next, nextAfter, objsAfter, boxesAfter, cntsAfter) ==
    /\ Len(evs) = 1
    /\ evs[1].op = "match" /\ evs[1].id = objs[1].k /\ evs[1].col = 1
    /\ nextAfter = next
    /\ objsAfter = <<[k |-> objs[1].k, v |-> Centroid(dets[1])]>>
    /\ boxesAfter = <<[k |-> objs[1].k, v |-> dets[1]]>>
    /\ cntsAfter = <<[k |-> objs[1].k, v |-> 0]>>

\* C26: there is no maximum matching distance. When exactly one object is
\* tracked and the frame has exactly one detection, the object is matched to
\* it however far it is from the stored centroid: the id is kept and no new
\* id is registered.
C26_SoleObjectAlwaysMatched ==
    [][(Len(objects) = 1 /\ Len(detections') = 1) =>
          SoleMatch(objects, detections', events', nextObjectID, nextObjectID',
                    objects', object_boxes', disappeared')]_vars

\* C26 witness: the only tracked object has just been matched to the only
\* detection of the frame, as far from where it was as two boxes can be.
C26_Witness ==
    /\ leapt
    /\ Len(objects) = 1
    /\ Len(detections) = 1
    /\ object_boxes[1].v = detections[1]

\* The first match the update logged is that of an object whose distance to
\* its nearest detection is the smallest of all objects, with that detection;
\* the object has count 0 afterwards; an object whose minimum distance is
\* strictly the smallest is the one; and the matches are at least one and at
\* most as many as there are objects and as there are detections.
FirstIsMatched(objs, dets, evs, cntsAfter) ==
    LET D == StepD(objs, dets)
        nearest(i, j) ==
            /\ \A h \in 1..Len(dets) : D[i][j] <= D[i][h]
            /\ \A h \in 1..(j - 1) : D[i][j] < D[i][h]
        least(i, j) == \A k \in 1..Len(objs) : \A h \in 1..Len(dets) : D[i][j] <= D[k][h]
        leastAlone(i, j) ==
            \A k \in (1..Len(objs)) \ {i} : \A h \in 1..Len(dets) : D[i][j] < D[k][h]
        matches == {h \in 1..Len(evs) : evs[h].op = "match"}
    IN  /\ matches # {}
        /\ Cardinality(matches) <= Len(objs)
        /\ Cardinality(matches) <= Len(dets)
        /\ Cardinality({evs[h].id : h \in matches}) = Cardinality(matches)
        /\ \A h \in matches :
               (\A g \in matches : h <= g) =>
                   \E i \in 1..Len(objs) :
                       /\ objs[i].k = evs[h].id
                       /\ nearest(i, evs[h].col)
                       /\ least(i, evs[h].col)
                       /\ DictGet(cntsAfter, objs[i].k) = 0
        /\ \A i \in 1..Len(objs) : \A j \in 1..Len(dets) :
               (nearest(i, j) /\ leastAlone(i, j)) => MatchedTo(objs, evs, i, j)

\* C27: in every update with at least one tracked object and at least one
\* detection, the object with the smallest minimum distance, the first in
\* processing order, is matched: at least one tracked object has its count
\* reset to 0, and at most min(#objects, #detections) objects are matched.
C27_NearestPairAlwaysMatched ==
    [][(objects # <<>> /\ detections' # <<>>) =>
          FirstIsMatched(objects, detections', events', disappeared')]_vars

\* C27 witness: three objects were tracked and the frame had one detection;
\* one of them was matched and is the only one with count 0.
C27_Witness ==
    /\ Len(detections) = 1
    /\ Len(objects) = 3
    /\ EventCount(events, "match") = 1
    /\ EventCount(events, "register") = 0
    /\ Cardinality(ZeroCount) = 1

-----------------------------------------------------------------------------
(* The ticket shop (src/tickets/backend/app.py): a Flask application over  *)
(* a PostgreSQL database reached through a psycopg connection pool. A      *)
(* with pool.connection() block is one transaction: it is committed when   *)
(* the block is left without an exception and rolled back otherwise.       *)

\* Bounds of the shop: the orders committed, and the entries of the
\* quantities object of a purchase request.
MaxOrders == 1
MaxTicketKinds == 2

\* if not (0 < total_q <= 10)
MaxTotal == 10

\* The keys of TICKET_TYPES and their multipliers, in percent.
TICKET_TYPES == {"full", "discount", "free"}
Multiplier(type) == IF type = "full" THEN 100 ELSE IF type = "discount" THEN 50 ELSE 0

\* The JSON values a quantity may be, each with its value in tenths: the
\* whole number n, a number with one decimal, the string that spells the
\* whole number n, and a string that spells no number.
QInt(n) == [kind |-> "int", tenths |-> 10 * n]
QFloat(t) == [kind |-> "float", tenths |-> t]
QText(n) == [kind |-> "numeric string", tenths |-> 10 * n]
QWord == [kind |-> "word", tenths |-> 0]

\* int(q): the number cut toward zero, the number a string spells, or a
\* ValueError.
CanInt(q) == q.kind \in {"int", "float", "numeric string"}
IntOf(q) == IF q.tenths >= 0 THEN q.tenths \div 10 ELSE -((-q.tenths) \div 10)

\* q > 0 for the value as it came: a string against 0 is a TypeError.
CanCompare(q) == q.kind \in {"int", "float"}

\* Column quantity INTEGER NOT NULL CHECK (quantity > 0): the database casts
\* a float parameter to the integer nearest to it, a tie to the even one.
AsInteger(q) ==
    LET whole == q.tenths \div 10
        part == q.tenths % 10
    IN  IF part < 5 THEN whole
        ELSE IF part > 5 THEN whole + 1
        ELSE IF whole % 2 = 0 THEN whole ELSE whole + 1

\* n.strip() is empty.
Blank(n) == n \in {"", " "}

\* "@" in email
HasAt(email) == email \in {"ann@example.com"}

\* SELECT price ... FROM attractions WHERE attraction_id = %s: the rows found.
AttractionRows(table, id) == {a \in table : a.attraction_id = id}

required == {"attraction_id", "quantities", "customer_names", "customer_email", "usage_date"}

\* The loop over quantities.items() that validates and sums: status 400 at
\* the first entry of an unknown type or with a value int() refuses, else
\* status 0 and the total, a negative quantity counted as 0.
RECURSIVE SumQuantities(_, _, _)
SumQuantities(items, i, total_q) ==
    IF i > Len(items) THEN [status |-> 0, total_q |-> total_q]
    ELSE IF items[i].k \notin TICKET_TYPES THEN [status |-> 400, total_q |-> total_q]
    ELSE IF ~CanInt(items[i].v) THEN [status |-> 400, total_q |-> total_q]
    ELSE SumQuantities(items, i + 1,
                       total_q + (IF IntOf(items[i].v) >= 0 THEN IntOf(items[i].v) ELSE 0))

\* The loop over quantities.items() that prices: one item per entry with
\* q > 0, q as it came, and the TypeError of a q that is a string. price_per
\* is base_price * multiplier, kept in tenths (101 * 0.5 is 505 tenths);
\* total_amount adds price_per * q, tenths by tenths, so it is in hundredths.
RECURSIVE BuildItems(_, _, _, _, _, _)
BuildItems(entries, i, order_id, attraction_id, base_price, built) ==
    IF i > Len(entries) \/ built.raised # "none" THEN built
    ELSE IF ~CanCompare(entries[i].v)
         THEN [built EXCEPT !.raised = "TypeError"]
    ELSE IF entries[i].v.tenths > 0
         THEN LET price_per == (base_price * Multiplier(entries[i].k)) \div 10
              IN  BuildItems(entries, i + 1, order_id, attraction_id, base_price,
                     [built EXCEPT
                        !.total_amount = @ + price_per * entries[i].v.tenths,
                        !.items = @ \cup {[order_id |-> order_id, attraction_id |-> attraction_id,
                                           ticket_type |-> entries[i].k,
                                           quantity |-> entries[i].v,
                                           price_per_ticket |-> price_per]}])
    ELSE BuildItems(entries, i + 1, order_id, attraction_id, base_price, built)

\* send_purchase_email(order_details): it returns at once when the mail
\* account is not configured. Otherwise it renders the template, outside
\* its try block, and the template iterates order.items: order is a dict,
\* so Jinja finds the method dict.items before the key "items", and the
\* loop over a method raises TypeError. (Past that, app.config holds no key
\* MAIL_DEFAULT_SENDER, only Mail_DEFAULT_SENDER.)
send_purchase_email(configured) == IF ~configured THEN "returned" ELSE "TypeError"

\* A response of handle_purchase with the tables as the request leaves them.
Respond(status, db, order_id) ==
    [status |-> status, orders |-> db.orders, order_items |-> db.order_items,
     order_id |-> order_id]

\* Lines 284-299 of handle_purchase: 400 for a request that is not in
\* order, 0 for one that goes on to the database.
Validate(req) ==
    IF ~req.is_json THEN 400
    ELSE IF ~(required \subseteq req.fields) THEN 400
    ELSE IF req.quantities.kind # "object" THEN 400
    ELSE LET sum == SumQuantities(req.quantities.items, 1, 0)
             names == req.customer_names
         IN  IF sum.status = 400 THEN 400
             ELSE IF ~(0 < sum.total_q /\ sum.total_q <= MaxTotal) THEN 400
             ELSE IF names.kind # "array" \/ Len(names.items) # sum.total_q THEN 400
             ELSE IF \E i \in 1..Len(names.items) : Blank(names.items[i]) THEN 400
             ELSE IF req.customer_email = "" \/ ~HasAt(req.customer_email) THEN 400
             ELSE IF ~req.usage_date.iso \/ req.usage_date.day < 0 THEN 400
             ELSE 0

\* Lines 303-306: the connection and the SELECT of the price into the local
\* base_price. fault names the database step that fails in this call, if
\* any. Status 0: the price is read.
ReadPrice(db, req, fault) ==
    LET attraction == AttractionRows(db.attractions, req.attraction_id)
    IN  IF fault \in {"connect", "select"} \/ ~db.schema
        THEN [status |-> 500, base_price |-> 0]
        ELSE IF attraction = {} THEN [status |-> 404, base_price |-> 0]
        ELSE [status |-> 0, base_price |-> (CHOOSE a \in attraction : TRUE).price]

\* Lines 301 and 308-310: the order the handler makes up from the request and
\* the price it has read, before it writes anything: the row for table
\* orders and the items, or the TypeError of the loop over the quantities.
\* order_id is uuid4(): an id no row has.
PrepareOrder(db, req, base_price) ==
    LET order_id == Cardinality(db.orders) + 1
        built == BuildItems(req.quantities.items, 1, order_id, req.attraction_id, base_price,
                            [raised |-> "none", items |-> {}, total_amount |-> 0])
    IN  [raised |-> built.raised,
         row |-> [order_id |-> order_id, customer_names |-> req.customer_names.items,
                  customer_email |-> req.customer_email, usage_date |-> req.usage_date.day,
                  total_amount |-> built.total_amount],
         items |-> built.items]

\* Lines 312-319: the two INSERTs of the order made up, the commit on leaving
\* the with block, the email and the answer. db is the database as the
\* INSERTs find it.
WriteOrder(db, order, fault, configured) ==
    LET rows == {[item EXCEPT !.quantity = AsInteger(item.quantity)] : item \in order.items}
        committed == [orders |-> db.orders \cup {order.row},
                      order_items |-> db.order_items \cup rows]
    IN  IF fault = "insert order" \/ ~db.schema THEN Respond(500, db, 0)
        ELSE IF \E item \in rows : ~(item.quantity > 0) THEN Respond(500, db, 0)
        ELSE IF fault \in {"insert items", "commit"} THEN Respond(500, db, 0)
        ELSE IF send_purchase_email(configured) # "returned" THEN Respond(500, committed, 0)
        ELSE Respond(201, committed, order.row.order_id)

\* handle_purchase() up to line 310, where it has written nothing yet: the
\* status it answers with at once, 400, 404 or 500, or status 0 and the order
\* it has made up, with which it goes on to its INSERTs.
handle_purchase(db, req, fault) ==
    LET validated == Validate(req)
        read == ReadPrice(db, req, fault)
        order == PrepareOrder(db, req, read.base_price)
    IN  IF validated # 0 THEN [status |-> validated, order |-> <<>>]
        ELSE IF read.status # 0 THEN [status |-> read.status, order |-> <<>>]
        ELSE IF order.raised # "none" THEN [status |-> 500, order |-> <<>>]
        ELSE [status |-> 0, order |-> [row |-> order.row, items |-> order.items]]

\* check_password_hash()
check_password(user, password) == user.password = password

\* admin_login(): the session is written inside the with block and the
\* function returns from inside it, so the commit of the block comes after.
admin_login(db, sess, req, fault) ==
    IF ~req.is_json THEN [status |-> 400, session |-> sess]
    ELSE IF req.username = "" \/ req.password = "" THEN [status |-> 400, session |-> sess]
    ELSE IF fault \in {"connect", "select"} \/ ~db.schema THEN [status |-> 500, session |-> sess]
    ELSE LET found == {u \in db.users : u.username = req.username}
         IN  IF \E u \in found : check_password(u, req.password)
             THEN LET user == CHOOSE u \in found : TRUE
                      entered == DictSet(DictSet(DictSet(DictSet(sess,
                                    "_permanent", TRUE), "user_id", user.user_id),
                                    "username", user.username), "role", user.role)
                  IN  [status |-> IF fault = "commit" THEN 500 ELSE 200, session |-> entered]
             ELSE [status |-> IF fault = "commit" THEN 500 ELSE 401, session |-> sess]

\* admin_logout(): session.clear()
admin_logout(sess) == <<>>

\* admin_status(): 'user_id' in session
admin_status(sess) == DictHas(sess, "user_id")

\* The JSON values a price may be: a number, a string that spells no
\* number, and null.
PNum(n) == [kind |-> "number", n |-> n]
PWord == [kind |-> "word", n |-> 0]
PNone == [kind |-> "null", n |-> 0]

\* try: price = float(data['price']); assert price >= 0
ValidPrice(price) == price.kind = "number" /\ price.n >= 0

\* not data.get('price'): null and 0 are falsy.
Falsy(price) == price.kind = "null" \/ (price.kind = "number" /\ price.n = 0)

\* A response of an attraction handler with table attractions as it leaves it.
Answered(status, table) == [status |-> status, attractions |-> table]

\* admin_add_attraction(): an INSERT that runs meets the primary key of the
\* table; one that fails otherwise never learns of the duplicate.
admin_add_attraction(db, req, fault) ==
    IF ~req.is_json THEN Answered(400, db.attractions)
    ELSE IF req.attraction_id = "" \/ req.price.kind = "null" THEN Answered(400, db.attractions)
    ELSE IF ~req.name_en THEN Answered(400, db.attractions)
    ELSE IF ~ValidPrice(req.price) THEN Answered(400, db.attractions)
    ELSE IF fault \in {"connect", "execute"} \/ ~db.schema THEN Answered(500, db.attractions)
    ELSE IF AttractionRows(db.attractions, req.attraction_id) # {}
         THEN Answered(409, db.attractions)
    ELSE IF fault = "commit" THEN Answered(500, db.attractions)
    ELSE Answered(201, db.attractions \cup
                       {[attraction_id |-> req.attraction_id, price |-> req.price.n]})

\* admin_update_attraction(attraction_id)
admin_update_attraction(db, attraction_id, req, fault) ==
    IF ~req.is_json THEN Answered(400, db.attractions)
    ELSE IF Falsy(req.price) \/ ~req.name_en THEN Answered(400, db.attractions)
    ELSE IF ~ValidPrice(req.price) THEN Answered(400, db.attractions)
    ELSE IF fault \in {"connect", "execute", "commit"} \/ ~db.schema
         THEN Answered(500, db.attractions)
    ELSE IF AttractionRows(db.attractions, attraction_id) = {} THEN Answered(404, db.attractions)
    ELSE Answered(200, {IF a.attraction_id = attraction_id
                        THEN [a EXCEPT !.price = req.price.n] ELSE a : a \in db.attractions})

\* admin_delete_attraction(attraction_id): no table refers to attractions,
\* so the row goes whether or not orders name it.
admin_delete_attraction(db, attraction_id, fault) ==
    IF fault \in {"connect", "execute", "commit"} \/ ~db.schema THEN Answered(500, db.attractions)
    ELSE IF AttractionRows(db.attractions, attraction_id) = {} THEN Answered(404, db.attractions)
    ELSE Answered(200, {a \in db.attractions : a.attraction_id # attraction_id})

\* The attractions the requests of the model name.
AttractionNames == {"borobudur", "atlantis"}

\* The purchase requests of the model. One family varies what is asked for,
\* the quantities object and the names, in a request that is otherwise in
\* order and meets no database failure; the other varies the rest of the
\* request, one field at a time, and the attraction and the database step
\* that fails before the price is read.
TicketTypeNames == {"full", "discount", "vip"}
QuantityValues ==
    {QInt(-1), QInt(1), QInt(MaxTotal), QFloat(10 * MaxTotal + 9), QText(1), QWord}
QuantityEntries == [k : TicketTypeNames, v : QuantityValues]
QuantityObjects ==
    {q \in UNION {[1..n -> QuantityEntries] : n \in 0..MaxTicketKinds} :
        \A i, j \in 1..Len(q) : i # j => q[i].k # q[j].k}
NameLists ==
    {[i \in 1..k |-> "Ann"] : k \in {1, 2, MaxTotal}}
GoodRequest ==
    [is_json |-> TRUE, fields |-> required, attraction_id |-> "borobudur",
     quantities |-> [kind |-> "object", items |-> <<[k |-> "full", v |-> QInt(1)]>>],
     customer_names |-> [kind |-> "array", items |-> <<"Ann">>],
     customer_email |-> "ann@example.com", usage_date |-> [iso |-> TRUE, day |-> 0]]
AskingCalls ==
    {[req |-> [GoodRequest EXCEPT !.quantities.items = q, !.customer_names.items = n],
      fault |-> "none"] : q \in QuantityObjects, n \in NameLists}
PurchaseFaults == {"none", "connect", "select"}
OtherRequests ==
    {[GoodRequest EXCEPT !.is_json = FALSE],
     [GoodRequest EXCEPT !.fields = required \ {"customer_names"}],
     [GoodRequest EXCEPT !.quantities.kind = "array"],
     [GoodRequest EXCEPT !.customer_names.kind = "string"],
     [GoodRequest EXCEPT !.customer_names.items = <<" ">>],
     [GoodRequest EXCEPT !.customer_email = "ann"],
     [GoodRequest EXCEPT !.customer_email = ""],
     [GoodRequest EXCEPT !.usage_date = [iso |-> TRUE, day |-> -1]],
     [GoodRequest EXCEPT !.usage_date = [iso |-> FALSE, day |-> 0]]}
OtherCalls ==
    {[req |-> r, fault |-> "none"] : r \in OtherRequests}
    \cup {[req |-> [GoodRequest EXCEPT !.attraction_id = a], fault |-> f] :
              a \in AttractionNames, f \in PurchaseFaults}
PurchaseCalls == AskingCalls \cup OtherCalls

\* What a purchase request asks for, as a reader of the request counts it:
\* the ticket types named, the total of the quantities in tenths with a
\* negative one counted as 0 (-1 when there is no such total: no quantities
\* object, or a quantity that spells no number), and the number of names
\* (-1 when the names are no list).
RECURSIVE TotalAsked(_, _)
TotalAsked(items, i) ==
    IF i > Len(items) THEN 0
    ELSE LET rest == TotalAsked(items, i + 1)
             q == items[i].v
         IN  IF rest = -1 \/ q.kind = "word" THEN -1
             ELSE rest + (IF q.tenths > 0 THEN q.tenths ELSE 0)
Asked(req) ==
    IF ~req.is_json \/ ~(required \subseteq req.fields) \/ req.quantities.kind # "object"
    THEN [types |-> {}, total |-> -1, names |-> -1]
    ELSE [types |-> {req.quantities.items[i].k : i \in 1..Len(req.quantities.items)},
          total |-> TotalAsked(req.quantities.items, 1),
          names |-> IF req.customer_names.kind = "array"
                    THEN Len(req.customer_names.items) ELSE -1]
AskedInOrder(req) ==
    LET a == Asked(req)
    IN  /\ a.types \subseteq TICKET_TYPES
        /\ 10 * 1 <= a.total /\ a.total <= 10 * MaxTotal
        /\ 10 * a.names = a.total
RequestsInOrder == {c.req : c \in {call \in PurchaseCalls : AskedInOrder(call.req)}}

\* The database as the handlers find it.
Database ==
    [schema |-> schema, users |-> users, attractions |-> attractions,
     orders |-> orders, order_items |-> order_items]

\* POST /api/purchase that is answered before line 312: a request that is
\* not in order, an attraction that is not there, a database that fails, a
\* quantity that cannot be compared with 0. Nothing is written.
Purchase ==
    \* One purchase at a time.
    /\ pending = {}
    /\ \E call \in PurchaseCalls :
        \E begun \in {handle_purchase(Database, call.req, call.fault)} :
            /\ begun.status # 0
            /\ answer' = [op |-> "purchase", status |-> begun.status, logged_in |-> FALSE,
                          order_id |-> 0]
            /\ asked' = (call.req \in RequestsInOrder)
            /\ UNCHANGED <<mailConfigured, pending, schema, users, attractions, orders,
                           order_items, session, loggedIn>>
            /\ UNCHANGED monitor

\* POST /api/purchase, up to line 310: the handler has read the price, made
\* up its order and waits on the database for its INSERTs, while the server,
\* which runs its requests in threads, each on a connection of its own,
\* answers others. Nothing locks the row it read. With the order waits the
\* history of its request: whether it was in order as to tickets and names.
PurchaseWaits ==
    /\ pending = {}
    \* The cap on the table: with MaxOrders orders in it no request goes on to
    \* its INSERTs.
    /\ Cardinality(orders) < MaxOrders
    /\ \E call \in PurchaseCalls :
        \E begun \in {handle_purchase(Database, call.req, call.fault)} :
            /\ begun.status = 0
            /\ pending' = {[order |-> begun.order, asked |-> call.req \in RequestsInOrder]}
            /\ UNCHANGED <<mailConfigured, schema, users, attractions, orders, order_items,
                           session, answer, asked, loggedIn>>
            /\ UNCHANGED monitor

\* POST /api/purchase, from line 312: the handler that waited writes its
\* order, made up at the price it read, into the tables as they are now.
WriteFaults == {"none", "insert order", "insert items", "commit"}
PurchaseResumes ==
    \E p \in pending, fault \in WriteFaults :
        \E r \in {WriteOrder(Database, p.order, fault, mailConfigured)} :
            /\ pending' = pending \ {p}
            /\ orders' = r.orders
            /\ order_items' = r.order_items
            /\ answer' = [op |-> "purchase", status |-> r.status, logged_in |-> FALSE,
                          order_id |-> r.order_id]
            /\ asked' = p.asked
            /\ UNCHANGED <<mailConfigured, schema, users, attractions, session, loggedIn>>
            /\ UNCHANGED monitor

\* POST /api/admin/login
LoginCalls ==
    [req : [is_json : BOOLEAN, username : {"admin", "eve", ""},
            password : {"password", "guess", ""}],
     fault : {"none", "connect", "select", "commit"}]
Login ==
    \E call \in LoginCalls :
        \E r \in {admin_login(Database, session, call.req, call.fault)} :
            /\ session' = r.session
            /\ answer' = [op |-> "login", status |-> r.status, logged_in |-> FALSE,
                          order_id |-> 0]
            /\ loggedIn' = IF r.status = 200 THEN TRUE ELSE loggedIn
            /\ UNCHANGED <<mailConfigured, pending, schema, users, attractions, orders, order_items, asked>>
            /\ UNCHANGED monitor

\* POST /api/admin/logout
Logout ==
    /\ session' = admin_logout(session)
    /\ answer' = [op |-> "logout", status |-> 200, logged_in |-> FALSE, order_id |-> 0]
    /\ loggedIn' = FALSE
    /\ UNCHANGED <<mailConfigured, pending, schema, users, attractions, orders, order_items, asked>>
    /\ UNCHANGED monitor

\* GET /api/admin/status
Status ==
    /\ answer' = [op |-> "status", status |-> 200, logged_in |-> admin_status(session),
                  order_id |-> 0]
    /\ UNCHANGED <<mailConfigured, pending, schema, users, attractions, orders, order_items,
                   session, asked, loggedIn>>
    /\ UNCHANGED monitor

\* PERMANENT_SESSION_LIFETIME: an hour after the response that set it, the
\* cookie of a permanent session is void.
SessionExpires ==
    /\ session # <<>>
    /\ session' = <<>>
    /\ UNCHANGED <<mailConfigured, pending, schema, users, attractions, orders, order_items,
                   answer, asked, loggedIn>>
    /\ UNCHANGED monitor

\* The requests on attractions: every request without a database failure,
\* and a request in order with each database step that fails.
PriceValues == {PNum(250), PNum(-1), PWord, PNone}
AttractionFaults == {"none", "connect", "execute", "commit"}
AttractionRequests ==
    [is_json : BOOLEAN, attraction_id : AttractionNames \cup {""},
     price : PriceValues, name_en : BOOLEAN]
AttractionCalls ==
    {[req |-> r, fault |-> "none"] : r \in AttractionRequests}
    \cup {[req |-> [is_json |-> TRUE, attraction_id |-> a, price |-> PNum(250),
                    name_en |-> TRUE],
           fault |-> f] : a \in AttractionNames, f \in AttractionFaults}

\* POST /api/admin/attractions
AddAttraction ==
    \E call \in AttractionCalls :
        \E r \in {admin_add_attraction(Database, call.req, call.fault)} :
            /\ attractions' = r.attractions
            /\ UNCHANGED <<mailConfigured, pending, schema, users, orders, order_items,
                           session, answer, asked, loggedIn>>
            /\ UNCHANGED monitor

\* PUT /api/admin/attractions/<attraction_id>
UpdateAttraction ==
    \E call \in AttractionCalls, attraction_id \in AttractionNames :
        \E r \in {admin_update_attraction(Database, attraction_id, call.req, call.fault)} :
            /\ attractions' = r.attractions
            /\ UNCHANGED <<mailConfigured, pending, schema, users, orders, order_items,
                           session, answer, asked, loggedIn>>
            /\ UNCHANGED monitor

\* DELETE /api/admin/attractions/<attraction_id>
DeleteAttraction ==
    \E attraction_id \in AttractionNames, fault \in AttractionFaults :
        \E r \in {admin_delete_attraction(Database, attraction_id, fault)} :
            /\ attractions' = r.attractions
            /\ UNCHANGED <<mailConfigured, pending, schema, users, orders, order_items,
                           session, answer, asked, loggedIn>>
            /\ UNCHANGED monitor

\* reset_database() of reset_db.py: DROP TABLE ... CASCADE for order_items,
\* orders, attractions and users in one transaction; without DATABASE_URL,
\* or when the connection or a DROP fails, nothing is dropped. The answers
\* of before a drop of the tables are not kept; a reset that leaves the
\* database as it was leaves everything as it was.
reset_database(db, fault) ==
    IF fault # "none" THEN db
    ELSE [schema |-> FALSE, users |-> {}, attractions |-> {}, orders |-> {}, order_items |-> {}]
ResetFaults == {"none", "no url", "connect", "drop"}
ResetDatabase ==
    \E fault \in ResetFaults :
        LET r == reset_database(Database, fault)
        IN  \* DROP TABLE takes an exclusive lock on each table. A purchase that
            \* waits holds the lock of its SELECT on attractions until its
            \* transaction ends, and its INSERTs need locks on the tables the
            \* reset has dropped before: the two wait for each other and the
            \* database ends one of them. A reset that is ended is the fault
            \* "drop"; a purchase that is ended is answered 500, its INSERT
            \* having failed, before the tables are dropped.
            /\ fault = "none" => pending = {}
            /\ schema' = r.schema
            /\ users' = r.users
            /\ attractions' = r.attractions
            /\ orders' = r.orders
            /\ order_items' = r.order_items
            /\ answer' = IF r = Database THEN answer ELSE NoAnswer
            /\ UNCHANGED <<mailConfigured, pending, session, asked, loggedIn>>
            /\ UNCHANGED monitor

\* init_db() at the start of the application: CREATE TABLE IF NOT EXISTS,
\* the default administrator when there is none, and the attractions of
\* default_attractions.json, when the file is there, into an empty table.
\* It is one transaction: a failure leaves the database as it was.
init_db(db, fault, loaded) ==
    IF fault # "none" THEN db
    ELSE [db EXCEPT !.schema = TRUE,
                    !.users = IF \E u \in @ : u.username = "admin" THEN @ ELSE Users,
                    !.attractions = IF @ = {} THEN loaded ELSE @]
InitDbFaults == {"none", "connect"}
InitDb ==
    \E fault \in InitDbFaults, loaded \in {SampleAttractions, {}} :
        LET r == init_db(Database, fault, loaded)
        IN  /\ schema' = r.schema
            /\ users' = r.users
            /\ attractions' = r.attractions
            /\ UNCHANGED <<orders, order_items>>
            /\ UNCHANGED <<mailConfigured, pending, session, answer, asked, loggedIn>>
            /\ UNCHANGED monitor

NextTickets ==
    \/ Purchase \/ PurchaseWaits \/ PurchaseResumes
    \/ Login \/ Logout \/ Status \/ SessionExpires
    \/ AddAttraction \/ UpdateAttraction \/ DeleteAttraction
    \/ ResetDatabase \/ InitDb

\* The shop starts with or without a mail account configured.
InitTickets ==
    /\ MonitorInit /\ maxDisappeared = 0
    /\ TicketsInit
    /\ mailConfigured \in BOOLEAN

SpecTickets == InitTickets /\ [][NextTickets]_vars

-----------------------------------------------------------------------------
\* C28: whenever handle_purchase answers with a status other than 201, the
\* tables orders and order_items are as they were before the request, and an
\* order row is committed exactly when order items are.
AnsweredPurchase(before, after, rowsBefore, rowsAfter, itemsBefore, itemsAfter) ==
    after.op = "purchase" =>
        /\ after.status # 201 => (rowsAfter = rowsBefore /\ itemsAfter = itemsBefore)
        /\ rowsAfter # rowsBefore <=> itemsAfter # itemsBefore
C28_NothingCommittedUnless201 ==
    [][AnsweredPurchase(answer, answer', orders, orders', order_items, order_items')]_vars

\* C29: handle_purchase creates an order only when every ticket type asked
\* for is one of full, discount and free, the total quantity (a negative
\* quantity counted as 0) is between 1 and 10, and there are as many names as
\* that total; a request that is not so is answered 400 and leaves the
\* tables as they were.
OrderOnlyAsAsked(after, inOrder, rowsBefore, rowsAfter, itemsBefore, itemsAfter) ==
    after.op = "purchase" =>
        /\ rowsAfter # rowsBefore => inOrder
        /\ ~inOrder => /\ after.status = 400
                       /\ rowsAfter = rowsBefore
                       /\ itemsAfter = itemsBefore
C29_OrderOnlyWhenAskedInOrder ==
    [][OrderOnlyAsAsked(answer', asked', orders, orders', order_items, order_items')]_vars

\* C30: for one client session, admin_status reports logged_in true exactly
\* when a login was answered 200 after the last logout, and a login answered
\* 400, 401 or 500 leaves the session as it was.
Lapsed(sessBefore, sessAfter, before, after) ==
    sessBefore # <<>> /\ sessAfter = <<>> /\ after = before
FailedLoginKeepsSession(sessBefore, sessAfter, before, after) ==
    (after.op = "login" /\ after.status \in {400, 401, 500}
        /\ ~Lapsed(sessBefore, sessAfter, before, after))
    => sessAfter = sessBefore
StatusTellsLogin(after, loggedAfter) ==
    after.op = "status" => after.logged_in = loggedAfter
C30_StatusFollowsLoginAndLogout ==
    [][/\ FailedLoginKeepsSession(session, session', answer, answer')
       /\ StatusTellsLogin(answer', loggedIn')]_vars

====
